---- MODULE Spec2Model ----
(***************************************************************************)
(* A model of loom's attribute-aware export subsystem (loom-core/export,   *)
(* loom-core/util).  Strings are sequences of one-character strings, so    *)
(* that letter case, byte order, file extensions and JSON escaping are     *)
(* computed, not assumed.  A BTreeMap<String, Vec<String>> is a function   *)
(* from its keys to value sequences; its iteration order is the byte order *)
(* of the keys (SortedKeys).                                               *)
(***************************************************************************)
EXTENDS Integers, Sequences, FiniteSets, TLC

VARIABLES
    entries,   \* the caller's entry collection (an immutable snapshot)
    path,      \* the output path the caller exports to
    file,      \* the content of the file at `path`, or NoFile
    call,      \* the last call made: its operation and arguments
    ret,       \* what that call returned
    stages,    \* the stages that call went through, in order
    rerun,     \* whether that call repeated, and succeeded like, the one before
    dialog     \* the profile dialog the behaviour has constructed, if any

vars == <<entries, path, file, call, ret, stages, rerun, dialog>>

\* ------------------------------------------------------------------ bounds

MaxEntries == 2
MaxVals == 2
MaxList == 2

\* ------------------------------------------------------------- characters

\* The printable ASCII characters, in code order from 32 (space) to 126
\* (the grave accent, 96, is written "grave").
Ascii ==
    << " ", "!", "\"", "#", "$", "%", "&", "'", "(", ")", "*", "+", ",", "-",
       ".", "/", "0", "1", "2", "3", "4", "5", "6", "7", "8", "9", ":", ";",
       "<", "=", ">", "?", "@", "A", "B", "C", "D", "E", "F", "G", "H", "I",
       "J", "K", "L", "M", "N", "O", "P", "Q", "R", "S", "T", "U", "V", "W",
       "X", "Y", "Z", "[", "\\", "]", "^", "_", "grave", "a", "b", "c", "d", "e",
       "f", "g", "h", "i", "j", "k", "l", "m", "n", "o", "p", "q", "r", "s",
       "t", "u", "v", "w", "x", "y", "z", "{", "|", "}", "~" >>

\* The byte of each character: line feed is 10, the printable ones 32..126.
CodeOf ==
    [c \in { Ascii[i] : i \in 1..Len(Ascii) } \cup {"\n"} |->
        IF c = "\n" THEN 10
        ELSE 31 + (CHOOSE i \in 1..Len(Ascii) : Ascii[i] = c)]

Code(c) == CodeOf[c]

\* char::to_lowercase on ASCII: 'A'..'Z' move down by 32, the rest stay.
to_lowercase_char(c) ==
    LET n == Code(c)
    IN  IF n >= 65 /\ n <= 90 THEN Ascii[n + 32 - 31] ELSE c

\* str::to_lowercase, character by character.
to_lowercase(s) == [i \in 1..Len(s) |-> to_lowercase_char(s[i])]

\* Ord for String: lexicographic on bytes, a proper prefix sorting first.
RECURSIVE StrLess(_, _)
StrLess(a, b) ==
    IF b = << >> THEN FALSE
    ELSE IF a = << >> THEN TRUE
    ELSE IF Code(a[1]) # Code(b[1]) THEN Code(a[1]) < Code(b[1])
    ELSE StrLess(Tail(a), Tail(b))

\* ------------------------------------------------------------- data model

None == [tag |-> "None"]
Some(x) == [tag |-> "Some", val |-> x]
Ok(x) == [tag |-> "Ok", val |-> x]
ExportError(msg) == [tag |-> "Err", msg |-> msg]

NoFile == [tag |-> "NoFile"]
Content(text) == [tag |-> "File", text |-> text]

\* LdapEntry::new(dn, attributes).
LdapEntry_new(dn, attributes) == [dn |-> dn, attributes |-> attributes]

\* BTreeMap: the empty map, insertion (a later insert of a key replaces the
\* value), and the keys in iteration order (ascending byte order).
BTreeMap_new == << >>
\* An insert that adds the values to those the key already has.
BTreeMap_insert_extend(m, k, v) ==
    IF k \in DOMAIN m THEN [m EXCEPT ![k] = @ \o v] ELSE (k :> v) @@ m

BTreeMap_insert(m, k, v) == (k :> v) @@ m

RECURSIVE SortedKeysOf(_)
SortedKeysOf(ks) ==
    IF ks = {} THEN << >>
    ELSE LET least == CHOOSE k \in ks : \A o \in ks \ {k} : StrLess(k, o)
         IN  <<least>> \o SortedKeysOf(ks \ {least})

SortedKeys(m) == SortedKeysOf(DOMAIN m)

\* FromIterator for BTreeMap: the pairs are inserted in iteration order.
RECURSIVE BTreeMap_collect(_)
BTreeMap_collect(pairs) ==
    IF pairs = << >> THEN BTreeMap_new
    ELSE LET n == Len(pairs)
         IN  BTreeMap_insert(BTreeMap_collect(SubSeq(pairs, 1, n - 1)),
                             pairs[n][1], pairs[n][2])

\* ------------------------------------------------------ attribute selection

star == <<"*">>

\* A requested_attrs that takes any list naming "*" for the wildcard.
requested_attrs_any_star(attributes) ==
    IF \E i \in 1..Len(attributes) : attributes[i] = star
    THEN None
    ELSE Some(attributes)

\* requested_attrs: None for exactly ["*"], otherwise the list itself.
requested_attrs(attributes) ==
    IF Len(attributes) = 1 /\ attributes[1] = star
    THEN None
    ELSE Some(attributes)

\* A filter_map_get that looks the requested name up ignoring letter case.
RECURSIVE filter_map_get_ci(_, _)
filter_map_get_ci(entry, attrs) ==
    IF attrs = << >> THEN << >>
    ELSE LET a == Head(attrs)
             rest == filter_map_get_ci(entry, Tail(attrs))
             hits == { k \in DOMAIN entry.attributes :
                         to_lowercase(k) = to_lowercase(a) }
         IN  IF hits # {}
             THEN << <<a, entry.attributes[SortedKeysOf(hits)[1]]>> >> \o rest
             ELSE rest

\* attrs.iter().filter_map(|a| entry.attributes.get(a).map(|v| (a, v))):
\* the (name, values) pairs of the requested names the entry has, in list order.
RECURSIVE filter_map_get(_, _)
filter_map_get(entry, attrs) ==
    IF attrs = << >> THEN << >>
    ELSE LET a == Head(attrs)
             rest == filter_map_get(entry, Tail(attrs))
         IN  IF a \in DOMAIN entry.attributes
             THEN << <<a, entry.attributes[a]>> >> \o rest
             ELSE rest

\* A filter_entries that leaves out the entries it has emptied.
filter_entries_drop_empty(ents, attributes) ==
    LET r == requested_attrs(attributes)
        kept(e) == LdapEntry_new(e.dn, BTreeMap_collect(filter_map_get(e, r.val)))
    IN  IF r.tag = "Some"
        THEN SelectSeq([i \in 1..Len(ents) |-> kept(ents[i])],
                       LAMBDA e : DOMAIN e.attributes # {})
        ELSE ents

\* A filter_entries that takes "*" for the name of an attribute.
filter_entries_star_by_name(ents, attributes) ==
    [i \in 1..Len(ents) |->
        LdapEntry_new(ents[i].dn,
                      BTreeMap_collect(filter_map_get(ents[i], attributes))) ]

filter_entries(ents, attributes) ==
    LET r == requested_attrs(attributes)
    IN  IF r.tag = "Some"
        THEN [i \in 1..Len(ents) |->
                LdapEntry_new(ents[i].dn,
                              BTreeMap_collect(filter_map_get(ents[i], r.val))) ]
        ELSE ents

\* ------------------------------------------------------------ input pools

SeqsUpTo(S, n) == UNION { [1..k -> S] : k \in 0..n }

cn == <<"c", "n">>
CN == <<"C", "N">>
sn == <<"s", "n">>

NamePool == {cn, CN, sn, star}
ValuePool == { <<"T">>, <<"U">> }
DnPool == { <<"c", "n", "=", "a">>, <<"c", "n", "=", "b">> }

\* Attribute sets of at most two keys, every value sequence up to MaxVals long.
AttrMaps ==
    UNION { [ks -> SeqsUpTo(ValuePool, MaxVals)] :
              ks \in { s \in SUBSET NamePool : Cardinality(s) <= 2 } }

\* Entries for collections of several entries: either dn, a few attribute sets.
SmallMaps ==
    { BTreeMap_new,
      (cn :> << <<"T">> >>),
      (cn :> << <<"T">>, <<"U">> >>) @@ (sn :> << <<"U">> >>) }

SmallEntries == { LdapEntry_new(d, m) : d \in DnPool, m \in SmallMaps }

\* The collections the selector is applied to: the empty one, every single
\* entry over AttrMaps, and every sequence of 2..MaxEntries small entries.
FilterCollections ==
    { << >> }
    \cup { << LdapEntry_new(CHOOSE d \in DnPool : TRUE, m) >> : m \in AttrMaps }
    \cup UNION { [1..k -> SmallEntries] : k \in 2..MaxEntries }

AttrLists == SeqsUpTo(NamePool, MaxList)

NoPath == << >>
NoCall == [op |-> "none"]
NoDialog == [type |-> "none"]

\* ----------------------------------------------- the selector, called alone
\* Each behaviour draws a collection and applies one of the two pure functions
\* to it once.

FilterInit ==
    /\ entries \in FilterCollections
    /\ path = NoPath
    /\ file = NoFile
    /\ call = NoCall
    /\ ret = None
    /\ stages = << >>
    /\ rerun = FALSE
    /\ dialog = NoDialog

CallRequestedAttrs ==
    \E attributes \in AttrLists :
        /\ call = NoCall
        /\ call' = [op |-> "requested_attrs", attributes |-> attributes]
        /\ ret' = requested_attrs(attributes)
        /\ stages' = << >>
        /\ UNCHANGED <<entries, path, file, rerun, dialog>>

CallFilterEntries ==
    \E attributes \in AttrLists :
        /\ call = NoCall
        /\ call' = [op |-> "filter_entries", attributes |-> attributes]
        /\ ret' = Ok(filter_entries(entries, attributes))
        /\ stages' = << >>
        /\ UNCHANGED <<entries, path, file, rerun, dialog>>

FilterNext == CallRequestedAttrs \/ CallFilterEntries

SpecFilter == FilterInit /\ [][FilterNext]_vars

\* ------------------------------------------------- properties of the selector

NamesOf(list) == { list[j] : j \in 1..Len(list) }

\* C2: for an explicit list L, each filtered entry's attribute names are
\* exactly the names of L that are keys of the entry (compared exactly), each
\* with the entry's own value sequence, unchanged and in its order; a requested
\* name the entry lacks is skipped and the call still returns.
FilterExactAttributes ==
    (call.op = "filter_entries" /\ call.attributes # <<star>>) =>
        /\ ret.tag = "Ok"
        /\ Len(ret.val) = Len(entries)
        /\ \A i \in 1..Len(entries) :
             LET out == ret.val[i].attributes
                 in == entries[i].attributes
             IN  /\ DOMAIN out = NamesOf(call.attributes) \cap DOMAIN in
                 /\ \A k \in DOMAIN out : out[k] = in[k]

\* One entry with keys cn and sn, filtered by [CN, sn]: CN is not a key (the
\* case differs) and is skipped, sn keeps its two values in their order.
FilterExactWitness ==
    /\ call.op = "filter_entries"
    /\ call.attributes = <<CN, sn>>
    /\ Len(entries) = 1
    /\ DOMAIN entries[1].attributes = {cn, sn}
    /\ entries[1].attributes[sn] = << <<"U">>, <<"T">> >>
    /\ ret.val[1].attributes = (sn :> << <<"U">>, <<"T">> >>)

\* C3: for every attribute list the filtered collection is as long as the
\* input and its i-th entry has the i-th input entry's dn.
FilterPreservesEntries ==
    call.op = "filter_entries" =>
        /\ Len(ret.val) = Len(entries)
        /\ \A i \in 1..Len(entries) : ret.val[i].dn = entries[i].dn

\* Two entries with different dns, the first left without attributes.
FilterPreservesWitness ==
    /\ call.op = "filter_entries"
    /\ Len(entries) = 2
    /\ entries[1].dn # entries[2].dn
    /\ DOMAIN entries[1].attributes # {}
    /\ DOMAIN ret.val[1].attributes = {}
    /\ DOMAIN ret.val[2].attributes # {}

\* C4: requested_attrs returns None exactly for the one-element list ["*"];
\* every other list comes back as given.
WildcardIffSingleStar ==
    call.op = "requested_attrs" =>
        /\ (ret = None) <=> (call.attributes = <<star>>)
        /\ (call.attributes # <<star>>) => (ret = Some(call.attributes))

\* A list with "*" beside another name is explicit.
WildcardWitness ==
    /\ call.op = "requested_attrs"
    /\ call.attributes = <<star, cn>>
    /\ ret = Some(<<star, cn>>)

\* C15: with the wildcard list ["*"] filtering returns every entry unchanged:
\* the same dn, the same attribute names and the same value sequences, an
\* attribute named "*" included.
WildcardKeepsEntries ==
    (call.op = "filter_entries" /\ call.attributes = <<star>>) =>
        /\ Len(ret.val) = Len(entries)
        /\ \A i \in 1..Len(entries) :
             /\ ret.val[i].dn = entries[i].dn
             /\ DOMAIN ret.val[i].attributes = DOMAIN entries[i].attributes
             /\ \A k \in DOMAIN entries[i].attributes :
                  ret.val[i].attributes[k] = entries[i].attributes[k]
        /\ ret.val = entries

\* An entry with an attribute named "*" beside cn, filtered by ["*"]: both
\* attributes come back with their values.
WildcardKeepsWitness ==
    /\ call.op = "filter_entries"
    /\ call.attributes = <<star>>
    /\ Len(entries) = 1
    /\ DOMAIN entries[1].attributes = {star, cn}
    /\ entries[1].attributes[cn] = << <<"T">>, <<"U">> >>
    /\ entries[1].attributes[star] = << <<"U">> >>
    /\ ret.val[1].attributes = (star :> << <<"U">> >>) @@ (cn :> << <<"T">>, <<"U">> >>)

FilterOrderWitness ==
    /\ call.op = "filter_entries"
    /\ call.attributes = <<sn, cn>>
    /\ Len(entries) = 1
    /\ DOMAIN entries[1].attributes = {cn, sn}
    /\ ret.val = filter_entries(entries, <<cn, sn>>)
    /\ ret.val = entries

\* ------------------------------------------------------- format resolution

\* Path::components, as far as file_name needs it: the path split at "/",
\* empty and "." components dropped.
RECURSIVE components(_, _, _)
components(p, cur, acc) ==
    LET done == IF cur = << >> \/ cur = <<".">> THEN acc ELSE Append(acc, cur)
    IN  IF p = << >> THEN done
        ELSE IF Head(p) = "/" THEN components(Tail(p), << >>, done)
        ELSE components(Tail(p), Append(cur, Head(p)), acc)

\* Path::file_name: the last component, unless there is none or it is "..".
file_name(p) ==
    LET cs == components(p, << >>, << >>)
    IN  IF cs = << >> \/ cs[Len(cs)] = <<".", ".">> THEN None
        ELSE Some(cs[Len(cs)])

\* Path::extension: what follows the last "." of the file name; None when
\* the name has no "." or only a leading one.
extension(p) ==
    LET f == file_name(p)
    IN  IF f = None THEN None
        ELSE LET name == f.val
                 dots == { i \in 1..Len(name) : name[i] = "." }
             IN  IF dots = {} THEN None
                 ELSE LET last == CHOOSE i \in dots : \A j \in dots : j <= i
                      IN  IF last = 1 THEN None
                          ELSE Some(SubSeq(name, last + 1, Len(name)))

ldif == <<"l", "d", "i", "f">>
ldf == <<"l", "d", "f">>
json == <<"j", "s", "o", "n">>
csv == <<"c", "s", "v">>
xlsx == <<"x", "l", "s", "x">>
xls == <<"x", "l", "s">>

\* An ExportFormat::from_path that matches the extension as spelled.
from_path_case_sensitive(p) ==
    LET ext == extension(p)
    IN  IF ext = None THEN None
        ELSE LET e == ext.val
             IN  IF e = ldif \/ e = ldf THEN Some("Ldif")
                 ELSE IF e = json THEN Some("Json")
                 ELSE IF e = csv THEN Some("Csv")
                 ELSE IF e = xlsx \/ e = xls THEN Some("Xlsx")
                 ELSE None

\* ExportFormat::from_path.
from_path(p) ==
    LET ext == extension(p)
    IN  IF ext = None THEN None
        ELSE LET e == to_lowercase(ext.val)
             IN  IF e = ldif \/ e = ldf THEN Some("Ldif")
                 ELSE IF e = json THEN Some("Json")
                 ELSE IF e = csv THEN Some("Csv")
                 ELSE IF e = xlsx \/ e = xls THEN Some("Xlsx")
                 ELSE None

\* The upper-case form of an ASCII character (to spell inputs in any casing).
to_uppercase_char(c) ==
    LET n == Code(c)
    IN  IF n >= 97 /\ n <= 122 THEN Ascii[n - 32 - 31] ELSE c

\* Every casing of a word.
Casings(w) ==
    { v \in [1..Len(w) -> { w[i] : i \in 1..Len(w) }
                          \cup { to_uppercase_char(w[i]) : i \in 1..Len(w) }] :
        \A i \in 1..Len(w) : v[i] \in {w[i], to_uppercase_char(w[i])} }

\* Extensions to try: the six known ones, near misses, the empty one.
ExtWords ==
    { ldif, ldf, json, csv, xlsx, xls,
      <<"t", "x", "t">>, <<"j", "s", "o">>, <<"j", "s", "o", "n", "l">>,
      <<"l", "d">>, << >> }

PathStems == { <<"a">>, <<"d", ".", "c", "s", "v", "/", "t", "e", "s", "t">> }

\* Paths with every casing of every extension, and paths without extension:
\* no dot, a leading dot only, a dotted directory, a trailing "..".
PathPool ==
    { stem \o <<".">> \o e :
        stem \in PathStems, e \in UNION { Casings(w) : w \in ExtWords } }
    \cup { <<"n", "o", "e", "x", "t">>,
           <<".">> \o json,
           <<"a", ".">> \o json \o <<"/", "n", "o", "e", "x", "t">>,
           <<"a", ".">> \o json \o <<"/">>,
           <<"a", ".">> \o json \o <<"/", ".", ".">>,
           << >> }

PathInit ==
    /\ entries = << >>
    /\ path \in PathPool
    /\ file = NoFile
    /\ call = NoCall
    /\ ret = None
    /\ stages = << >>
    /\ rerun = FALSE
    /\ dialog = NoDialog

CallFromPath ==
    /\ call = NoCall
    /\ call' = [op |-> "from_path", path |-> path]
    /\ ret' = from_path(path)
    /\ stages' = << >>
    /\ UNCHANGED <<entries, path, file, rerun, dialog>>

PathNext == CallFromPath

SpecPath == PathInit /\ [][PathNext]_vars

\* Two strings are equal up to the case of their ASCII letters.
SameIgnoringCase(a, b) ==
    /\ Len(a) = Len(b)
    /\ \A i \in 1..Len(a) :
         a[i] = b[i] \/ a[i] = to_uppercase_char(b[i]) \/ b[i] = to_uppercase_char(a[i])

\* C6: from_path is decided by the extension alone, in any casing: ldif and ldf
\* give Ldif, json Json, csv Csv, xlsx and xls Xlsx; any other extension, and a
\* path without extension, gives None.
FromPathByExtension ==
    call.op = "from_path" =>
        LET ext == extension(call.path)
            is(w) == ext # None /\ SameIgnoringCase(ext.val, w)
        IN  /\ (is(ldif) \/ is(ldf)) => ret = Some("Ldif")
            /\ is(json) => ret = Some("Json")
            /\ is(csv) => ret = Some("Csv")
            /\ (is(xlsx) \/ is(xls)) => ret = Some("Xlsx")
            /\ ~(is(ldif) \/ is(ldf) \/ is(json) \/ is(csv) \/ is(xlsx) \/ is(xls))
                 => ret = None

\* A mixed-case alias resolved: "a.xLs" gives Xlsx.
FromPathWitness ==
    /\ call.op = "from_path"
    /\ call.path = <<"a", ".", "x", "L", "s">>
    /\ ret = Some("Xlsx")

\* ------------------------------------------------------------ JSON writer

RECURSIVE Concat(_)
Concat(parts) ==
    IF parts = << >> THEN << >> ELSE Head(parts) \o Concat(Tail(parts))

\* serde_json's string escaping: quote, backslash and line feed are written
\* with a backslash; every other character of the model is written as is.
escape_char(c) ==
    IF c = "\"" THEN <<"\\", "\"">>
    ELSE IF c = "\\" THEN <<"\\", "\\">>
    ELSE IF c = "\n" THEN <<"\\", "n">>
    ELSE <<c>>

json_string(str) ==
    <<"\"">> \o Concat([i \in 1..Len(str) |-> escape_char(str[i])]) \o <<"\"">>

\* PrettyFormatter: two spaces per level; an empty array or object is written
\* closed on the spot, otherwise each item sits on a line of its own, items
\* separated by ",".
indent(level) == [i \in 1..(2 * level) |-> " "]

pretty_items(open, close, items, level) ==
    IF items = << >> THEN <<open, close>>
    ELSE <<open>>
         \o Concat([i \in 1..Len(items) |->
                      (IF i = 1 THEN <<"\n">> ELSE <<",", "\n">>)
                      \o indent(level + 1) \o items[i]])
         \o <<"\n">> \o indent(level) \o <<close>>

json_string_array(values, level) ==
    pretty_items("[", "]", [i \in 1..Len(values) |-> json_string(values[i])], level)

\* A BTreeMap is written as an object, keys in iteration order.
json_attributes(attributes, level) ==
    LET keys == SortedKeys(attributes)
    IN  pretty_items("{", "}",
            [i \in 1..Len(keys) |->
                json_string(keys[i]) \o <<":", " ">>
                \o json_string_array(attributes[keys[i]], level + 1)],
            level)

dn_field == <<"d", "n">>
attributes_field == <<"a", "t", "t", "r", "i", "b", "u", "t", "e", "s">>

\* An LdapEntry is written as the object {dn, attributes}.
json_entry(entry, level) ==
    pretty_items("{", "}",
        << json_string(dn_field) \o <<":", " ">> \o json_string(entry.dn),
           json_string(attributes_field) \o <<":", " ">>
               \o json_attributes(entry.attributes, level + 1) >>,
        level)

\* serde_json::to_string_pretty(&filtered); `ser` is whether serializing works.
to_string_pretty(ents, ser) ==
    IF ser = "fail" THEN ExportError("JSON serialization failed")
    ELSE Ok(pretty_items("[", "]",
                [i \in 1..Len(ents) |-> json_entry(ents[i], 1)], 0))

\* A json::to_string that takes every list, ["*"] too, as a list of names.
to_string_literal_star(ents, attributes, ser) ==
    to_string_pretty(
        [i \in 1..Len(ents) |->
            LdapEntry_new(ents[i].dn,
                          BTreeMap_collect(filter_map_get(ents[i], attributes)))],
        ser)

\* json::to_string.
to_string(ents, attributes, ser) ==
    to_string_pretty(filter_entries(ents, attributes), ser)

\* ------------------------------------------------------------ JSON reader
\* serde_json::from_str::<Vec<LdapEntry>>, for documents of the writer's shape:
\* an array of objects {dn: string, attributes: {name: [string]}}.

Fail == [ok |-> FALSE]
Parsed(v, i) == [ok |-> TRUE, val |-> v, pos |-> i]

RECURSIVE skip_ws(_, _)
skip_ws(t, i) ==
    IF i <= Len(t) /\ t[i] \in {" ", "\n"} THEN skip_ws(t, i + 1) ELSE i

\* The characters of a string up to its closing quote, escapes undone; a raw
\* line feed inside a string is refused.
RECURSIVE parse_str_body(_, _, _)
parse_str_body(t, i, acc) ==
    IF i > Len(t) THEN Fail
    ELSE IF t[i] = "\"" THEN Parsed(acc, i + 1)
    ELSE IF t[i] = "\n" THEN Fail
    ELSE IF t[i] = "\\"
    THEN IF i + 1 > Len(t) THEN Fail
         ELSE IF t[i + 1] \in {"\"", "\\", "/"}
         THEN parse_str_body(t, i + 2, Append(acc, t[i + 1]))
         ELSE IF t[i + 1] = "n" THEN parse_str_body(t, i + 2, Append(acc, "\n"))
         ELSE Fail
    ELSE parse_str_body(t, i + 1, Append(acc, t[i]))

parse_string(t, i) ==
    IF i <= Len(t) /\ t[i] = "\"" THEN parse_str_body(t, i + 1, << >>) ELSE Fail

\* The kinds of value the document holds and, for the containers, their
\* brackets.
IsArray(kind) == kind \in {"strings", "entries"}
Close(kind) == IF IsArray(kind) THEN "]" ELSE "}"
Open(kind) == IF IsArray(kind) THEN "[" ELSE "{"

\* The kind of the value under `key` in an object of kind `kind`.
MemberKind(kind, key) ==
    IF kind = "strings" THEN "string"
    ELSE IF kind = "entries" THEN "entry"
    ELSE IF kind = "attributes" THEN "strings"
    ELSE IF key = dn_field THEN "string"
    ELSE IF key = attributes_field THEN "attributes"
    ELSE "unknown"

RECURSIVE parse_value(_, _, _)
RECURSIVE parse_member(_, _, _)
RECURSIVE parse_members(_, _, _, _, _)

\* One array element, or one `key: value` of an object (as <<key, value>>).
parse_member(kind, t, j) ==
    IF IsArray(kind) THEN parse_value(MemberKind(kind, << >>), t, j)
    ELSE LET k == parse_string(t, j)
         IN  IF ~k.ok THEN Fail
             ELSE LET c == skip_ws(t, k.pos)
                  IN  IF c > Len(t) \/ t[c] # ":" THEN Fail
                      ELSE LET v == parse_value(MemberKind(kind, k.val), t, c + 1)
                           IN  IF ~v.ok THEN Fail
                               ELSE Parsed(<<k.val, v.val>>, v.pos)

\* The members after the opening bracket, up to the closing one.
parse_members(kind, t, i, acc, first) ==
    LET j == skip_ws(t, i)
    IN  IF j > Len(t) THEN Fail
        ELSE IF first /\ t[j] = Close(kind) THEN Parsed(acc, j + 1)
        ELSE LET m == parse_member(kind, t, j)
             IN  IF ~m.ok THEN Fail
                 ELSE LET k == skip_ws(t, m.pos)
                      IN  IF k > Len(t) THEN Fail
                          ELSE IF t[k] = ","
                          THEN parse_members(kind, t, k + 1, Append(acc, m.val), FALSE)
                          ELSE IF t[k] = Close(kind)
                          THEN Parsed(Append(acc, m.val), k + 1)
                          ELSE Fail

parse_value(kind, t, i) ==
    LET j == skip_ws(t, i)
    IN  IF kind = "unknown" THEN Fail
        ELSE IF kind = "string" THEN parse_string(t, j)
        ELSE IF j <= Len(t) /\ t[j] = Open(kind)
        THEN parse_members(kind, t, j + 1, << >>, TRUE)
        ELSE Fail

\* The document as read, member order kept: a sequence of entries, each the
\* sequence of its <<field, value>> pairs; None if the text is not a document.
parse_document(t) ==
    LET d == parse_value("entries", t, 1)
    IN  IF d.ok /\ skip_ws(t, d.pos) > Len(t) THEN Some(d.val) ELSE None

\* The values a struct's members give for `field`.
FieldValues(members, field) ==
    SelectSeq(members, LAMBDA m : m[1] = field)

\* Deserialize for LdapEntry: each field exactly once; the attributes members
\* are collected into a BTreeMap.
entry_of_members(members) ==
    LdapEntry_new(FieldValues(members, dn_field)[1][2],
                  BTreeMap_collect(FieldValues(members, attributes_field)[1][2]))

from_str(t) ==
    LET d == parse_document(t)
    IN  IF d = None THEN ExportError("invalid JSON")
        ELSE IF \E i \in 1..Len(d.val) :
                  \/ Len(FieldValues(d.val[i], dn_field)) # 1
                  \/ Len(FieldValues(d.val[i], attributes_field)) # 1
        THEN ExportError("missing or duplicate field")
        ELSE Ok([i \in 1..Len(d.val) |-> entry_of_members(d.val[i])])

\* ------------------------------------------------------------ the exports

\* How a write can end: "ok"; "denied", refused before the file is opened;
\* "partial", the file opened (and emptied) and the write stopped on the way
\* (the first half written stands for any proper prefix).
WriteOutcomes == {"ok", "denied", "partial"}
SerOutcomes == {"ok", "fail"}

\* The (serialization, write) outcomes of one export: a write is attempted only
\* after serialization worked.
Outcomes == { <<"ok", wr>> : wr \in WriteOutcomes } \cup { <<"fail", "ok">> }

\* A std::fs::write that opens the file for appending.
fs_write_append(f, text, wr) ==
    IF wr = "ok"
    THEN [ok |-> TRUE,
          file |-> Content((IF f = NoFile THEN << >> ELSE f.text) \o text)]
    ELSE IF wr = "denied" THEN [ok |-> FALSE, file |-> f]
    ELSE [ok |-> FALSE, file |-> Content(SubSeq(text, 1, Len(text) \div 2))]

\* std::fs::write(path, text): creates or truncates the file, then writes all.
fs_write(f, text, wr) ==
    IF wr = "ok" THEN [ok |-> TRUE, file |-> Content(text)]
    ELSE IF wr = "denied" THEN [ok |-> FALSE, file |-> f]
    ELSE [ok |-> FALSE, file |-> Content(SubSeq(text, 1, Len(text) \div 2))]

\* A json::export that counts the entries that kept an attribute.
json_export_counts_nonempty(ents, f, attributes, ser, wr) ==
    LET filtered == filter_entries(ents, attributes)
        js == to_string_pretty(filtered, ser)
        w == fs_write(f, js.val, wr)
        kept == { i \in 1..Len(filtered) : DOMAIN filtered[i].attributes # {} }
    IN  IF js.tag = "Err"
        THEN [ret |-> js, file |-> f,
              stages |-> <<"filter_entries", "to_string_pretty">>]
        ELSE IF ~w.ok
        THEN [ret |-> ExportError("Failed to write file"), file |-> w.file,
              stages |-> <<"filter_entries", "to_string_pretty", "fs::write">>]
        ELSE [ret |-> Ok(Cardinality(kept)), file |-> w.file,
              stages |-> <<"filter_entries", "to_string_pretty", "fs::write">>]

\* A json::export that writes the entries as given, whatever the list names.
json_export_unfiltered(ents, f, attributes, ser, wr) ==
    LET js == to_string_pretty(ents, ser)
        w == fs_write(f, js.val, wr)
    IN  IF js.tag = "Err"
        THEN [ret |-> js, file |-> f,
              stages |-> <<"filter_entries", "to_string_pretty">>]
        ELSE IF ~w.ok
        THEN [ret |-> ExportError("Failed to write file"), file |-> w.file,
              stages |-> <<"filter_entries", "to_string_pretty", "fs::write">>]
        ELSE [ret |-> Ok(Len(ents)), file |-> w.file,
              stages |-> <<"filter_entries", "to_string_pretty", "fs::write">>]

\* A json::export that creates (truncates) the file before it serializes.
json_export_open_first(ents, f, attributes, ser, wr) ==
    LET filtered == filter_entries(ents, attributes)
        js == to_string_pretty(filtered, ser)
        w == fs_write(Content(<< >>), js.val, wr)
    IN  IF js.tag = "Err"
        THEN [ret |-> js, file |-> Content(<< >>),
              stages |-> <<"filter_entries", "to_string_pretty">>]
        ELSE IF ~w.ok
        THEN [ret |-> ExportError("Failed to write file"), file |-> w.file,
              stages |-> <<"filter_entries", "to_string_pretty", "fs::write">>]
        ELSE [ret |-> Ok(Len(ents)), file |-> w.file,
              stages |-> <<"filter_entries", "to_string_pretty", "fs::write">>]

\* json::export, on the file `f` found at the path: the result, the file left
\* at the path, and the stages gone through.
json_export(ents, f, attributes, ser, wr) ==
    LET filtered == filter_entries(ents, attributes)
        js == to_string_pretty(filtered, ser)
        w == fs_write(f, js.val, wr)
    IN  IF js.tag = "Err"
        THEN [ret |-> js, file |-> f,
              stages |-> <<"filter_entries", "to_string_pretty">>]
        ELSE IF ~w.ok
        THEN [ret |-> ExportError("Failed to write file"), file |-> w.file,
              stages |-> <<"filter_entries", "to_string_pretty", "fs::write">>]
        ELSE [ret |-> Ok(Len(ents)), file |-> w.file,
              stages |-> <<"filter_entries", "to_string_pretty", "fs::write">>]

\* ldif::export, csv::export and xlsx::export: the payload is a function of the
\* format, the entries and the attribute list, written in one piece; the count
\* is that of the input collection.
other_export(format, ents, f, attributes, wr) ==
    LET payload == << [format |-> format, entries |-> ents,
                       attributes |-> attributes] >>
        w == fs_write(f, payload, wr)
    IN  IF ~w.ok
        THEN [ret |-> ExportError("Failed to write file"), file |-> w.file,
              stages |-> <<"encode", "fs::write">>]
        ELSE [ret |-> Ok(Len(ents)), file |-> w.file,
              stages |-> <<"encode", "fs::write">>]

\* An export_entries that falls back to JSON when the extension is unknown.
export_entries_default_json(ents, p, f, attributes, ser, wr) ==
    LET format == from_path(p)
        r == IF format = None \/ format.val = "Json"
             THEN json_export(ents, f, attributes, ser, wr)
             ELSE other_export(format.val, ents, f, attributes, wr)
    IN  [ret |-> r.ret, file |-> r.file,
         stages |-> <<"from_path", "Json">> \o r.stages]

\* export_entries: resolve the format, then hand over to its encoder.
export_entries(ents, p, f, attributes, ser, wr) ==
    LET format == from_path(p)
    IN  IF format = None
        THEN [ret |-> ExportError("Unknown file extension"), file |-> f,
              stages |-> <<"from_path">>]
        ELSE LET r == IF format.val = "Json"
                      THEN json_export(ents, f, attributes, ser, wr)
                      ELSE other_export(format.val, ents, f, attributes, wr)
             IN  [ret |-> r.ret, file |-> r.file,
                  stages |-> <<"from_path", format.val>> \o r.stages]

\* ------------------------------------------------- the exports, as called

ExportEntryPool ==
    { LdapEntry_new(<<"c", "n", "=", "a">>,
                    (cn :> << <<"T">>, <<"U">> >>) @@ (sn :> << <<"U">> >>)),
      LdapEntry_new(<<"c", "n", "=", "b">>, (cn :> << <<"T">> >>)) }

ExportCollections == SeqsUpTo(ExportEntryPool, MaxEntries)

ExportLists == { <<star>>, <<sn>>, <<sn, cn>> }

ExportPaths ==
    { <<"a", ".", "J", "s", "o", "n">>,
      <<"a", ".">> \o ldf,
      <<"a", ".">> \o csv,
      <<"a", ".", "X", "l", "s">>,
      <<"a", ".", "t", "x", "t">>,
      <<"n", "o", "e", "x", "t">> }

\* What a file may hold before the first export.
Junk == Content(<<"o", "l", "d">>)

Init ==
    /\ entries \in ExportCollections
    /\ path \in ExportPaths
    /\ file \in {NoFile, Junk}
    /\ call = NoCall
    /\ ret = None
    /\ stages = << >>
    /\ rerun = FALSE
    /\ dialog = NoDialog

CallExportEntries ==
    \E attributes \in ExportLists, o \in Outcomes :
        LET r == export_entries(entries, path, file, attributes, o[1], o[2])
        IN  /\ call' = [op |-> "export_entries", attributes |-> attributes]
            /\ ret' = r.ret
            /\ file' = r.file
            /\ stages' = r.stages
            /\ rerun' = (call' = call /\ ret.tag = "Ok" /\ ret'.tag = "Ok")
            /\ UNCHANGED <<entries, path, dialog>>

CallJsonExport ==
    \E attributes \in ExportLists, o \in Outcomes :
        LET r == json_export(entries, file, attributes, o[1], o[2])
        IN  /\ call' = [op |-> "json::export", attributes |-> attributes]
            /\ ret' = r.ret
            /\ file' = r.file
            /\ stages' = r.stages
            /\ rerun' = (call' = call /\ ret.tag = "Ok" /\ ret'.tag = "Ok")
            /\ UNCHANGED <<entries, path, dialog>>

CallJsonToString ==
    \E attributes \in ExportLists, ser \in SerOutcomes :
        /\ call' = [op |-> "json::to_string", attributes |-> attributes]
        /\ ret' = to_string(entries, attributes, ser)
        /\ stages' = <<"filter_entries", "to_string_pretty">>
        /\ rerun' = FALSE
        /\ UNCHANGED <<entries, path, file, dialog>>

Next == CallExportEntries \/ CallJsonExport \/ CallJsonToString

Spec == Init /\ [][Next]_vars

\* ------------------------------------------------ properties of the exports

JsonPath(p) == from_path(p) = Some("Json")

\* C1: a successful json::export, and a successful export_entries on a .json
\* path, returns the number of entries of the input collection, whatever the
\* attribute list leaves of them.
CountIsInputSize ==
    ( /\ call.op = "json::export" \/ (call.op = "export_entries" /\ JsonPath(path))
      /\ ret.tag = "Ok" )
        => ret.val = Len(entries)

\* Two entries exported by [sn]; the second has no sn, so its attributes are
\* written as {} and it still counts.
CountWitness ==
    /\ call.op = "export_entries"
    /\ JsonPath(path)
    /\ call.attributes = <<sn>>
    /\ Len(entries) = 2
    /\ sn \in DOMAIN entries[1].attributes
    /\ sn \notin DOMAIN entries[2].attributes
    /\ ret = Ok(2)
    /\ file = Content(to_string(entries, <<sn>>, "ok").val)

\* The position of the first occurrence of x in a sequence (0 if none).
FirstIndex(list, x) ==
    IF \E i \in 1..Len(list) : list[i] = x
    THEN CHOOSE i \in 1..Len(list) : list[i] = x /\ \A j \in 1..(i - 1) : list[j] # x
    ELSE 0

\* The attribute names of the i-th entry of a written document, as written.
WrittenNames(text, i) ==
    LET members == FieldValues(parse_document(text).val[i], attributes_field)[1][2]
    IN  [k \in 1..Len(members) |-> members[k][1]]

\* C5: with an explicit list, export_entries writes each entry's attributes in
\* the order the caller listed them.
ExplicitOrderKept ==
    ( /\ call.op = "export_entries"
      /\ JsonPath(path)
      /\ call.attributes # <<star>>
      /\ ret.tag = "Ok" )
        => \A i \in 1..Len(entries) :
             LET names == WrittenNames(file.text, i)
             IN  \A a, b \in 1..Len(names) :
                   a < b => FirstIndex(call.attributes, names[a])
                              < FirstIndex(call.attributes, names[b])

Recognized(p) ==
    /\ extension(p) # None
    /\ \E w \in {ldif, ldf, json, csv, xlsx, xls} : SameIgnoringCase(extension(p).val, w)

\* One step, seen from its end: the call just made is an export_entries.
UnknownExtensionStep ==
    (call'.op = "export_entries") =>
        /\ stages'[1] = "from_path"
        /\ ~Recognized(path) =>
             /\ ret' = ExportError("Unknown file extension")
             /\ stages' = <<"from_path">>
             /\ file' = file

\* C7: export_entries on a path whose extension is missing or unknown returns
\* the unknown-extension failure, has gone through nothing but the format
\* resolution (no encoder), and leaves the file at the path as it was (none
\* stays none); and every export_entries call starts with the format resolution.
UnknownExtensionNoEffect == [][UnknownExtensionStep]_vars

\* An export to "a.txt" has failed and the old file is still there.
UnknownExtensionWitness ==
    /\ call.op = "export_entries"
    /\ path = <<"a", ".", "t", "x", "t">>
    /\ ret = ExportError("Unknown file extension")
    /\ stages = <<"from_path">>
    /\ file = Junk
    /\ Len(entries) = 2

\* What the export just made leaves when it finds no file at the path.
OnNoFile(c) ==
    IF c.op = "export_entries"
    THEN export_entries(entries, path, NoFile, c.attributes, "ok", "ok")
    ELSE json_export(entries, NoFile, c.attributes, "ok", "ok")

\* One step: a successful export leaves what it would leave on no file; one
\* that repeats the call before it, both succeeding, changes nothing.
RepeatedExportStep ==
    (call'.op \in {"export_entries", "json::export"} /\ ret'.tag = "Ok") =>
        /\ file' = OnNoFile(call').file
        /\ ret' = OnNoFile(call').ret
        /\ (call' = call /\ ret.tag = "Ok") => (file' = file /\ ret' = ret)

\* C9: an export repeated with the same entries, attribute list and path,
\* both runs succeeding, leaves the same file content and returns the same
\* count as the first run, whatever the file held before the first run.
ExportIdempotent == [][RepeatedExportStep]_vars

\* A second successful run of the same export of two entries.
ExportIdempotentWitness ==
    /\ rerun
    /\ call.op = "export_entries"
    /\ JsonPath(path)
    /\ call.attributes = <<sn, cn>>
    /\ Len(entries) = 2
    /\ ret = Ok(2)
    /\ file.tag = "File"

\* ---------------------------------------------------------- the round trip

RtNames == { cn, CN, <<"\"">> }
RtValues == { <<"T">>, <<"\"", "\\">>, <<"\n">> }
RtDn == <<"c", "n", "=", "\\", "n">>

RtMaps ==
    UNION { [ks -> SeqsUpTo(RtValues, MaxVals)] :
              ks \in { k \in SUBSET RtNames : Cardinality(k) <= 2 } }

RtCollections ==
    { << >> }
    \cup { << LdapEntry_new(RtDn, m) >> : m \in RtMaps }
    \cup UNION { [1..k -> SmallEntries] : k \in 2..MaxEntries }

RtInit ==
    /\ entries \in RtCollections
    /\ path = NoPath
    /\ file = NoFile
    /\ call = NoCall
    /\ ret = None
    /\ stages = << >>
    /\ rerun = FALSE
    /\ dialog = NoDialog

\* json::to_string(&entries, &["*"]).
CallToStringWildcard ==
    /\ call = NoCall
    /\ call' = [op |-> "json::to_string", attributes |-> <<star>>]
    /\ ret' = to_string(entries, <<star>>, "ok")
    /\ stages' = <<"filter_entries", "to_string_pretty">>
    /\ UNCHANGED <<entries, path, file, rerun, dialog>>

\* serde_json::from_str(&json) on the string just returned.
CallFromStr ==
    /\ call.op = "json::to_string"
    /\ ret.tag = "Ok"
    /\ call' = [op |-> "from_str", text |-> ret.val]
    /\ ret' = from_str(ret.val)
    /\ stages' = << >>
    /\ UNCHANGED <<entries, path, file, rerun, dialog>>

RtNext == CallToStringWildcard \/ CallFromStr

SpecRoundTrip == RtInit /\ [][RtNext]_vars

\* C8: the wildcard JSON of a collection parses back to a collection of the
\* same length whose entries, in order, have the same dn and the same
\* attributes with the same value sequences; in the text each entry's
\* attribute names are in ascending (byte) order.
JsonRoundTrip ==
    call.op = "from_str" =>
        /\ ret.tag = "Ok"
        /\ Len(ret.val) = Len(entries)
        /\ \A i \in 1..Len(entries) :
             /\ ret.val[i].dn = entries[i].dn
             /\ DOMAIN ret.val[i].attributes = DOMAIN entries[i].attributes
             /\ \A k \in DOMAIN entries[i].attributes :
                  ret.val[i].attributes[k] = entries[i].attributes[k]
             /\ LET names == WrittenNames(call.text, i)
                IN  /\ NamesOf(names) = DOMAIN entries[i].attributes
                    /\ \A a \in 1..(Len(names) - 1) : StrLess(names[a], names[a + 1])

\* An entry whose names and values need escaping, read back.
JsonRoundTripWitness ==
    /\ call.op = "from_str"
    /\ Len(entries) = 1
    /\ DOMAIN entries[1].attributes = { CN, <<"\"">> }
    /\ entries[1].attributes[CN] = << <<"\"", "\\">>, <<"\n">> >>
    /\ ret = Ok(entries)

\* ------------------------------------------------------ attribute lookup

\* for (k, v) in attrs { if k.to_lowercase() == key_lower { return ... } }:
\* the first key, in iteration order, equal to the lowered key once lowered.
RECURSIVE first_match(_, _)
first_match(keys, key_lower) ==
    IF keys = << >> THEN None
    ELSE IF to_lowercase(Head(keys)) = key_lower THEN Some(Head(keys))
    ELSE first_match(Tail(keys), key_lower)

\* A get_values that lowers the keys of the set but not the requested name.
get_values_key_as_given(attrs, key) ==
    LET hit == first_match(SortedKeys(attrs), key)
    IN  IF hit = None THEN << >> ELSE attrs[hit.val]

\* get_values: a copy of the first matching key's values, or an empty vector.
get_values(attrs, key) ==
    LET hit == first_match(SortedKeys(attrs), to_lowercase(key))
    IN  IF hit = None THEN << >> ELSE attrs[hit.val]

\* get_first: the first of get_values, if any.
get_first(attrs, key) ==
    LET values == get_values(attrs, key)
    IN  IF values = << >> THEN None ELSE Some(values[1])

\* A has_attr that takes an attribute without values for a missing one.
has_attr_nonempty(attrs, key) ==
    \E k \in DOMAIN attrs : to_lowercase(k) = to_lowercase(key) /\ attrs[k] # << >>

\* has_attr: whether any key matches.
has_attr(attrs, key) ==
    \E k \in DOMAIN attrs : to_lowercase(k) = to_lowercase(key)

\* A find_values_ci that prefers a key spelled exactly like the request.
find_values_ci_exact_first(attrs, key) ==
    IF key \in DOMAIN attrs THEN Some(attrs[key])
    ELSE LET hit == first_match(SortedKeys(attrs), to_lowercase(key))
         IN  IF hit = None THEN None ELSE Some(attrs[hit.val])

\* find_values_ci: the first matching key's values, by reference.
find_values_ci(attrs, key) ==
    LET hit == first_match(SortedKeys(attrs), to_lowercase(key))
    IN  IF hit = None THEN None ELSE Some(attrs[hit.val])

Cn == <<"C", "n">>

LookupKeys == { cn, CN, Cn, sn }
LookupNames == { cn, CN, Cn, <<"c", "N">>, sn, <<"S", "N">> }

\* Attribute sets of at most two keys, keys differing only in case included.
LookupMaps ==
    UNION { [ks -> SeqsUpTo(ValuePool, MaxVals)] :
              ks \in { k \in SUBSET LookupKeys : Cardinality(k) <= 2 } }

LookupInit ==
    /\ entries \in { << LdapEntry_new(CHOOSE d \in DnPool : TRUE, m) >> : m \in LookupMaps }
    /\ path = NoPath
    /\ file = NoFile
    /\ call = NoCall
    /\ ret = None
    /\ stages = << >>
    /\ rerun = FALSE
    /\ dialog = NoDialog

CallGetValues ==
    \E key \in LookupNames :
        /\ call = NoCall
        /\ call' = [op |-> "get_values", key |-> key]
        /\ ret' = Ok(get_values(entries[1].attributes, key))
        /\ UNCHANGED <<entries, path, file, stages, rerun, dialog>>

CallGetFirst ==
    \E key \in LookupNames :
        /\ call = NoCall
        /\ call' = [op |-> "get_first", key |-> key]
        /\ ret' = get_first(entries[1].attributes, key)
        /\ UNCHANGED <<entries, path, file, stages, rerun, dialog>>

CallHasAttr ==
    \E key \in LookupNames :
        /\ call = NoCall
        /\ call' = [op |-> "has_attr", key |-> key]
        /\ ret' = Ok(has_attr(entries[1].attributes, key))
        /\ UNCHANGED <<entries, path, file, stages, rerun, dialog>>

CallFindValuesCi ==
    \E key \in LookupNames :
        /\ call = NoCall
        /\ call' = [op |-> "find_values_ci", key |-> key]
        /\ ret' = find_values_ci(entries[1].attributes, key)
        /\ UNCHANGED <<entries, path, file, stages, rerun, dialog>>

LookupNext == CallGetValues \/ CallGetFirst \/ CallHasAttr \/ CallFindValuesCi

SpecLookup == LookupInit /\ [][LookupNext]_vars

\* The keys of a set that equal `name` up to letter case.
CaseVariantKeys(attrs, name) ==
    { k \in DOMAIN attrs : SameIgnoringCase(k, name) }

\* C10, as claimed: names differing only in case get the same answer from
\* get_values and from has_attr, and with key "cn" in the set the lookups by
\* "CN", "cn" and "Cn" return the values of that key, has_attr being true.
LookupIgnoresCaseAsClaimed ==
    LET attrs == entries[1].attributes
    IN  /\ call.op = "get_values" =>
             /\ \A other \in LookupNames :
                  SameIgnoringCase(other, call.key) => get_values(attrs, other) = ret.val
             /\ (cn \in DOMAIN attrs /\ call.key \in {CN, cn, Cn}) => ret.val = attrs[cn]
        /\ call.op = "has_attr" =>
             /\ \A other \in LookupNames :
                  SameIgnoringCase(other, call.key) => has_attr(attrs, other) = ret.val
             /\ (cn \in DOMAIN attrs /\ call.key \in {CN, cn, Cn}) => ret.val = TRUE

\* C10, amended: as above, except that the values returned with key "cn" in
\* the set are those of the first key, in the set's order, that equals "cn" up
\* to case: the "cn" key's own values when no such key sorts before it.
LookupIgnoresCase ==
    LET attrs == entries[1].attributes
        variants == CaseVariantKeys(attrs, cn)
    IN  /\ call.op = "get_values" =>
             /\ \A other \in LookupNames :
                  SameIgnoringCase(other, call.key) => get_values(attrs, other) = ret.val
             /\ (cn \in DOMAIN attrs /\ call.key \in {CN, cn, Cn}) =>
                  /\ \E k \in variants :
                       /\ \A o \in variants \ {k} : StrLess(k, o)
                       /\ ret.val = attrs[k]
                  /\ variants = {cn} => ret.val = attrs[cn]
        /\ call.op = "has_attr" =>
             /\ \A other \in LookupNames :
                  SameIgnoringCase(other, call.key) => has_attr(attrs, other) = ret.val
             /\ (cn \in DOMAIN attrs /\ call.key \in {CN, cn, Cn}) => ret.val = TRUE

\* Key "cn" alone in its spelling, with two values, looked up as "CN".
LookupIgnoresCaseWitness ==
    /\ call.op = "get_values"
    /\ call.key = CN
    /\ DOMAIN entries[1].attributes = {cn, sn}
    /\ entries[1].attributes[cn] = << <<"U">>, <<"T">> >>
    /\ ret.val = << <<"U">>, <<"T">> >>

\* The key of a non-empty set of keys that the set's iteration reaches first.
FirstInOrder(ks) == CHOOSE k \in ks : \A o \in ks \ {k} : StrLess(k, o)

\* C11: when keys of the set equal the requested name up to letter case,
\* get_values and find_values_ci both return the values of the one of them
\* that comes first in the set's order, however the request is spelled, a
\* request spelled exactly like a later key included.
FirstKeyInOrderWins ==
    call.op \in {"get_values", "find_values_ci"} =>
        LET attrs == entries[1].attributes
            variants == CaseVariantKeys(attrs, call.key)
        IN  variants # {} =>
              /\ call.op = "get_values" => ret.val = attrs[FirstInOrder(variants)]
              /\ call.op = "find_values_ci" => ret = Some(attrs[FirstInOrder(variants)])

\* Keys "Cn" and "cn" with different values, asked for "cn" by reference:
\* the values of "Cn", which sorts first, come back.
FirstKeyInOrderWitness ==
    /\ call.op = "find_values_ci"
    /\ call.key = cn
    /\ DOMAIN entries[1].attributes = {Cn, cn}
    /\ entries[1].attributes[Cn] = << <<"T">> >>
    /\ entries[1].attributes[cn] = << <<"U">>, <<"T">> >>
    /\ ret = Some(<< <<"T">> >>)

\* C12: on every attribute set and name the four lookups agree:
\* find_values_ci is present exactly when has_attr is true, and get_values
\* then returns an equal sequence; when has_attr is false find_values_ci is
\* absent and get_values is empty; get_first is the first element of what
\* get_values returns, absent when that is empty (attribute missing, or
\* present without values).
LookupsAgree ==
    call.op \in {"get_values", "get_first", "has_attr", "find_values_ci"} =>
        LET attrs == entries[1].attributes
            key == call.key
            found == find_values_ci(attrs, key)
            values == get_values(attrs, key)
            has == has_attr(attrs, key)
        IN  /\ call.op = "find_values_ci" =>
                 /\ ret.tag \in {"Some", "None"}
                 /\ (ret.tag = "Some") <=> has
                 /\ ret.tag = "Some" => values = ret.val
                 /\ ret = None => values = << >>
            /\ call.op = "has_attr" =>
                 /\ ret.val \in BOOLEAN
                 /\ ret.val <=> (found.tag = "Some")
                 /\ ret.val => values = found.val
                 /\ ~ret.val => (found = None /\ values = << >>)
            /\ call.op = "get_values" =>
                 /\ has => found = Some(ret.val)
                 /\ ~has => (found = None /\ ret.val = << >>)
            /\ call.op = "get_first" =>
                 /\ values = << >> <=> ret = None
                 /\ values # << >> => ret = Some(values[1])
                 /\ ~has => ret = None

\* Key "cn" present without values, asked for as "CN": the attribute exists,
\* its values are found and are empty, and there is no first value.
LookupsAgreeWitness ==
    /\ call.op = "get_first"
    /\ call.key = CN
    /\ DOMAIN entries[1].attributes = {cn, sn}
    /\ entries[1].attributes[cn] = << >>
    /\ entries[1].attributes[sn] = << <<"T">> >>
    /\ has_attr(entries[1].attributes, CN)
    /\ find_values_ci(entries[1].attributes, CN) = Some(<< >>)
    /\ ret = None

\* ------------------------------------------- the export and its in-memory twin

\* One step: a json::to_string leaves the file alone; a successful json::export
\* leaves exactly the string json::to_string returns for the same entries and
\* list, and nothing of what the file held.
ExportWritesToStringStep ==
    /\ call'.op = "json::to_string" => file' = file
    /\ (call'.op = "json::export" /\ ret'.tag = "Ok") =>
         /\ to_string(entries, call'.attributes, "ok").tag = "Ok"
         /\ file' = Content(to_string(entries, call'.attributes, "ok").val)

\* C13: json::to_string changes no file, and the content a successful
\* json::export leaves at the path is the string json::to_string returns for
\* the same inputs, in place of whatever the file held before.
ExportWritesToString == [][ExportWritesToStringStep]_vars

\* Two entries exported by [sn]: the file holds json::to_string's text, which
\* leaves out cn, and nothing of the old content.
ExportWritesToStringWitness ==
    /\ call.op = "json::export"
    /\ call.attributes = <<sn>>
    /\ Len(entries) = 2
    /\ entries[1] # entries[2]
    /\ ret.tag = "Ok"
    /\ file = Content(to_string(entries, <<sn>>, "ok").val)
    /\ file # Content(to_string(entries, <<star>>, "ok").val)
    /\ file.text[1] = "["

\* The whole text a json::export of the current entries has to write.
Payload(attributes) == to_string(entries, attributes, "ok").val

\* One step of json::export: the write comes after the serialization and only
\* when that worked; a failed serialization returns a failure with the file as
\* it was; a write that did not leave the whole payload returns a failure; a
\* count comes back only with both stages passed and the whole payload written.
SerializeBeforeWriteStep ==
    call'.op = "json::export" =>
        /\ stages' \in { <<"filter_entries", "to_string_pretty">>,
                         <<"filter_entries", "to_string_pretty", "fs::write">> }
        /\ ret'.tag \in {"Ok", "Err"}
        /\ ret' = ExportError("JSON serialization failed") =>
             /\ stages' = <<"filter_entries", "to_string_pretty">>
             /\ file' = file
        /\ Len(stages') = 2 =>
             /\ ret' = ExportError("JSON serialization failed")
             /\ file' = file
        /\ (Len(stages') = 3 /\ file' # Content(Payload(call'.attributes))) =>
             ret' = ExportError("Failed to write file")
        /\ ret'.tag = "Ok" =>
             /\ stages' = <<"filter_entries", "to_string_pretty", "fs::write">>
             /\ file' = Content(Payload(call'.attributes))
             /\ ret'.val = Len(entries)

\* C14: json::export serializes the whole payload before it attempts a write;
\* a failed serialization leaves the file untouched and returns a failure, a
\* failed write returns a failure, and a count is returned only when both
\* succeeded.
SerializeBeforeWrite == [][SerializeBeforeWriteStep]_vars

\* A serialization failure: the old file is still there, nothing was written.
SerializeBeforeWriteWitness ==
    /\ call.op = "json::export"
    /\ Len(entries) = 2
    /\ ret = ExportError("JSON serialization failed")
    /\ stages = <<"filter_entries", "to_string_pretty">>
    /\ file = Junk

\* A write failure half way: part of the payload is in the file, and the
\* call has returned a failure.
WriteFailureReturned ==
    /\ call.op = "json::export"
    /\ Len(entries) = 2
    /\ ret = ExportError("Failed to write file")
    /\ stages = <<"filter_entries", "to_string_pretty", "fs::write">>
    /\ file.tag = "File"
    /\ file # Junk
    /\ file # Content(Payload(call.attributes))

\* ------------------------------------------------------- the profile dialogs
\* ProfileExportDialog and ProfileImportDialog (loom-tui).  A behaviour
\* constructs one dialog and calls its methods; a method applies to the dialog
\* of its own type.  Cursor positions count from 0, as in the code.

MaxProfiles == 2
MaxTyped == 1

\* Action, as far as the dialogs return it.
Action_None == [action |-> "None"]
Action_ClosePopup == [action |-> "ClosePopup"]
Action_ErrorMessage(msg) == [action |-> "ErrorMessage", msg |-> msg]
Action_StatusMessage(msg) == [action |-> "StatusMessage", msg |-> msg]
Action_ConnMgrImportExecute(selected) ==
    [action |-> "ConnMgrImportExecute", selected |-> selected]

\* KeyEvent, by its code.
Key(code) == [code |-> code]
Char(c) == [code |-> "Char", c |-> c]

KeyChars == {"j", "k", "a", " "}

Keys ==
    { Key(k) : k \in {"Esc", "Tab", "BackTab", "Enter", "Up", "Down",
                      "Backspace", "F1"} }
    \cup { Char(c) : c \in KeyChars }

\* ConnectionProfile, the i-th of the configuration.
Profile(i) == [name |-> <<Ascii[33 + i]>>, host |-> <<"h">>, port |-> 388 + i]

\* The profile sequences of the configuration: its first k profiles.
ProfileLists == { [i \in 1..k |-> Profile(i)] : k \in 0..MaxProfiles }

\* The profile sequences a file may hold: those, and all profiles in reverse.
FileProfileLists ==
    ProfileLists \cup { [i \in 1..MaxProfiles |-> Profile(MaxProfiles + 1 - i)] }

profiles_toml ==
    <<"p", "r", "o", "f", "i", "l", "e", "s", ".", "t", "o", "m", "l">>

\* char::is_whitespace, on the characters of the model.
is_whitespace(c) == c \in {" ", "\n"}

\* str::trim: the string without its leading and trailing whitespace.
trim(s) ==
    LET solid == { i \in 1..Len(s) : ~is_whitespace(s[i]) }
    IN  IF solid = {} THEN << >>
        ELSE SubSeq(s, CHOOSE i \in solid : \A j \in solid : i <= j,
                       CHOOSE i \in solid : \A j \in solid : j <= i)

\* String::pop and String::push.
pop(s) == IF s = << >> THEN s ELSE SubSeq(s, 1, Len(s) - 1)
push(s, c) == Append(s, c)

\* PathBuf::join on strings: an absolute `rest` replaces `base`.
join(base, rest) ==
    IF rest # << >> /\ rest[1] = "/" THEN rest
    ELSE IF base # << >> /\ base[Len(base)] = "/" THEN base \o rest
    ELSE base \o <<"/">> \o rest

\* expand_tilde: a leading "~/" becomes the home directory, if there is one.
expand_tilde(p, home) ==
    IF Len(p) >= 2 /\ SubSeq(p, 1, 2) = <<"~", "/">> /\ home # None
    THEN join(home.val, SubSeq(p, 3, Len(p)))
    ELSE p

\* dirs::home_dir, which expand_tilde asks only for a path that starts "~/".
HomeDirs(p) ==
    IF Len(p) >= 2 /\ SubSeq(p, 1, 2) = <<"~", "/">>
    THEN { None, Some(<<"/", "h">>) }
    ELSE { None }

\* ---------------------------------------------------- ProfileExportDialog

\* ProfileExportDialog::new.
ProfileExportDialog_new ==
    [type |-> "export", visible |-> FALSE, popup |-> "new",
     active_field |-> "ProfileList", profiles |-> << >>, cursor |-> 0,
     filename |-> << >>]

\* A show that leaves the cursor where it was.
ProfileExportDialog_show_keep_cursor(d, profiles) ==
    [d EXCEPT !.profiles = [i \in 1..Len(profiles) |-> <<profiles[i].name, TRUE>>],
              !.filename = profiles_toml,
              !.active_field = "ProfileList",
              !.visible = TRUE,
              !.popup = "shown"]

\* ProfileExportDialog::show.
ProfileExportDialog_show(d, profiles) ==
    [d EXCEPT !.profiles = [i \in 1..Len(profiles) |-> <<profiles[i].name, TRUE>>],
              !.cursor = 0,
              !.filename = profiles_toml,
              !.active_field = "ProfileList",
              !.visible = TRUE,
              !.popup = "shown"]

\* ProfileExportDialog::hide.
ProfileExportDialog_hide(d) == [d EXCEPT !.visible = FALSE, !.popup = "hidden"]

\* What a handler hands back: the dialog as it leaves it, the Action it
\* returns, the file it leaves at the path it wrote, and its stages.
Handled(d, action, p, f, st) ==
    [dialog |-> d, action |-> action, path |-> p, file |-> f, stages |-> st]

\* An 'a' that inverts every flag.
set_all_invert(profiles) ==
    [i \in 1..Len(profiles) |-> <<profiles[i][1], ~profiles[i][2]>>]

\* for item in &mut profiles { item.1 = !all_selected }.
set_all(profiles) ==
    LET all_selected == \A i \in 1..Len(profiles) : profiles[i][2]
    IN  [i \in 1..Len(profiles) |-> <<profiles[i][1], ~all_selected>>]

\* if let Some(item) = profiles.get_mut(cursor) { item.1 = !item.1 }.
toggle_at(profiles, cursor) ==
    IF cursor < Len(profiles)
    THEN [profiles EXCEPT ![cursor + 1] = <<@[1], ~@[2]>>]
    ELSE profiles

\* ProfileExportDialog::handle_list_key.
ProfileExportDialog_handle_list_key(d, key) ==
    IF key.code = "Up" \/ key = Char("k")
    THEN IF d.cursor > 0 THEN [d EXCEPT !.cursor = @ - 1] ELSE d
    ELSE IF key.code = "Down" \/ key = Char("j")
    THEN IF d.cursor + 1 < Len(d.profiles) THEN [d EXCEPT !.cursor = @ + 1] ELSE d
    ELSE IF key = Char(" ")
    THEN [d EXCEPT !.profiles = toggle_at(d.profiles, d.cursor)]
    ELSE IF key = Char("a")
    THEN [d EXCEPT !.profiles = set_all(d.profiles)]
    ELSE d

\* A handle_filename_key that takes the space bar for a command, not a character.
ProfileExportDialog_handle_filename_key_no_space(d, key) ==
    IF key.code = "Backspace" THEN [d EXCEPT !.filename = pop(@)]
    ELSE IF key.code = "Char" /\ key.c # " " THEN [d EXCEPT !.filename = push(@, key.c)]
    ELSE d

\* ProfileExportDialog::handle_filename_key.
ProfileExportDialog_handle_filename_key(d, key) ==
    IF key.code = "Backspace" THEN [d EXCEPT !.filename = pop(@)]
    ELSE IF key.code = "Char" THEN [d EXCEPT !.filename = push(@, key.c)]
    ELSE d

\* The profiles of all_profiles at the positions whose flag is set, in order.
export_selected(profiles, all_profiles) ==
    LET idx == SelectSeq([i \in 1..Len(profiles) |-> i],
                         LAMBDA i : profiles[i][2] /\ i <= Len(all_profiles))
    IN  [k \in 1..Len(idx) |-> all_profiles[idx[k]]]

\* AppConfig::export_profiles: the text of the given profiles, in one piece,
\* or a failure.
export_profiles(selected, xp) ==
    IF xp = "fail" THEN ExportError("export failed")
    ELSE Ok(<< [profiles |-> selected] >>)

\* A submit that looks at the selection before it looks at the filename.
ProfileExportDialog_submit_selection_first(d, all_profiles, p, f, home, xp, wr) ==
    LET selected == export_selected(d.profiles, all_profiles)
        content == export_profiles(selected, xp)
        target == expand_tilde(trim(d.filename), home)
        w == fs_write(IF target = p THEN f ELSE NoFile, content.val, wr)
        hidden == ProfileExportDialog_hide(d)
    IN  IF selected = << >>
        THEN Handled(d, Action_ErrorMessage("No profiles selected"), p, f,
                     <<"submit">>)
        ELSE IF trim(d.filename) = << >>
        THEN Handled(d, Action_ErrorMessage("Filename is required"), p, f,
                     <<"submit">>)
        ELSE IF content.tag = "Err"
        THEN Handled(hidden, Action_ErrorMessage(content.msg), p, f,
                     <<"submit", "export_profiles">>)
        ELSE IF ~w.ok
        THEN Handled(hidden, Action_ErrorMessage(<<"Failed to write", target>>),
                     IF w.file = NoFile THEN p ELSE target,
                     IF w.file = NoFile THEN f ELSE w.file,
                     <<"submit", "export_profiles", "fs::write">>)
        ELSE Handled(hidden,
                     Action_StatusMessage(<<"Exported", Len(selected), target>>),
                     target, w.file,
                     <<"submit", "export_profiles", "fs::write">>)

\* ProfileExportDialog::submit, with `f` the file last written, at path `p`.
ProfileExportDialog_submit(d, all_profiles, p, f, home, xp, wr) ==
    LET selected == export_selected(d.profiles, all_profiles)
        content == export_profiles(selected, xp)
        target == expand_tilde(trim(d.filename), home)
        w == fs_write(IF target = p THEN f ELSE NoFile, content.val, wr)
        hidden == ProfileExportDialog_hide(d)
    IN  IF trim(d.filename) = << >>
        THEN Handled(d, Action_ErrorMessage("Filename is required"), p, f,
                     <<"submit">>)
        ELSE IF selected = << >>
        THEN Handled(d, Action_ErrorMessage("No profiles selected"), p, f,
                     <<"submit">>)
        ELSE IF content.tag = "Err"
        THEN Handled(hidden, Action_ErrorMessage(content.msg), p, f,
                     <<"submit", "export_profiles">>)
        ELSE IF ~w.ok
        THEN Handled(hidden, Action_ErrorMessage(<<"Failed to write", target>>),
                     IF w.file = NoFile THEN p ELSE target,
                     IF w.file = NoFile THEN f ELSE w.file,
                     <<"submit", "export_profiles", "fs::write">>)
        ELSE Handled(hidden,
                     Action_StatusMessage(<<"Exported", Len(selected), target>>),
                     target, w.file,
                     <<"submit", "export_profiles", "fs::write">>)

\* ProfileExportDialog::handle_key_event.
ProfileExportDialog_handle_key_event(d, key, all_profiles, p, f, home, xp, wr) ==
    IF key.code = "Esc"
    THEN Handled(ProfileExportDialog_hide(d), Action_ClosePopup, p, f, << >>)
    ELSE IF key.code \in {"Tab", "BackTab"}
    THEN Handled([d EXCEPT !.active_field =
                      IF @ = "ProfileList" THEN "Filename" ELSE "ProfileList"],
                 Action_None, p, f, << >>)
    ELSE IF key.code = "Enter"
    THEN ProfileExportDialog_submit(d, all_profiles, p, f, home, xp, wr)
    ELSE IF d.active_field = "ProfileList"
    THEN Handled(ProfileExportDialog_handle_list_key(d, key), Action_None, p, f,
                 <<"handle_list_key">>)
    ELSE Handled(ProfileExportDialog_handle_filename_key(d, key), Action_None, p, f,
                 <<"handle_filename_key">>)

\* ---------------------------------------------------- ProfileImportDialog

\* ProfileImportDialog::new.
ProfileImportDialog_new ==
    [type |-> "import", visible |-> FALSE, popup |-> "new", phase |-> "FilePath",
     file_path |-> << >>, parsed_profiles |-> << >>, cursor |-> 0]

\* ProfileImportDialog::show.
ProfileImportDialog_show(d) ==
    [d EXCEPT !.phase = "FilePath",
              !.file_path = profiles_toml,
              !.parsed_profiles = << >>,
              !.cursor = 0,
              !.visible = TRUE,
              !.popup = "shown"]

\* ProfileImportDialog::hide.
ProfileImportDialog_hide(d) == [d EXCEPT !.visible = FALSE, !.popup = "hidden"]

\* ProfileImportDialog::handle_filepath_key.
ProfileImportDialog_handle_filepath_key(d, key) ==
    IF key.code = "Backspace" THEN [d EXCEPT !.file_path = pop(@)]
    ELSE IF key.code = "Char" THEN [d EXCEPT !.file_path = push(@, key.c)]
    ELSE d

\* ProfileImportDialog::handle_select_key.
ProfileImportDialog_handle_select_key(d, key) ==
    IF key.code = "Up" \/ key = Char("k")
    THEN IF d.cursor > 0 THEN [d EXCEPT !.cursor = @ - 1] ELSE d
    ELSE IF key.code = "Down" \/ key = Char("j")
    THEN IF d.cursor + 1 < Len(d.parsed_profiles)
         THEN [d EXCEPT !.cursor = @ + 1] ELSE d
    ELSE IF key = Char(" ")
    THEN [d EXCEPT !.parsed_profiles = toggle_at(d.parsed_profiles, d.cursor)]
    ELSE IF key = Char("a")
    THEN [d EXCEPT !.parsed_profiles = set_all(d.parsed_profiles)]
    ELSE d

\* What is found at the path the user gave: nothing readable, a text that is
\* no profile file, or the text of a sequence of profiles.
ReadOutcomes ==
    { [tag |-> "unreadable"], [tag |-> "garbage"] }
    \cup { [tag |-> "profiles", profiles |-> l] : l \in FileProfileLists }

\* std::fs::read_to_string, on what is found at the path.
read_to_string(p, rd) ==
    IF rd.tag = "unreadable" THEN ExportError(<<"Failed to read", p>>) ELSE Ok(rd)

\* AppConfig::import_profiles: the profiles of the text, or a failure.
import_profiles(content) ==
    IF content.tag = "profiles" THEN Ok(content.profiles)
    ELSE ExportError("import failed")

\* An open_file that reads whatever path it is given, a blank one too.
ProfileImportDialog_open_file_any_path(d, home, rd) ==
    LET p == expand_tilde(trim(d.file_path), home)
        content == read_to_string(p, rd)
        profiles == import_profiles(content.val)
    IN  IF content.tag = "Err"
        THEN [dialog |-> d, action |-> Action_ErrorMessage(content.msg),
              stages |-> <<"open_file", "read_to_string">>]
        ELSE IF profiles.tag = "Err"
        THEN [dialog |-> d, action |-> Action_ErrorMessage(profiles.msg),
              stages |-> <<"open_file", "read_to_string", "import_profiles">>]
        ELSE [dialog |->
                 [d EXCEPT !.parsed_profiles =
                               [i \in 1..Len(profiles.val) |-> <<profiles.val[i], TRUE>>],
                           !.cursor = 0,
                           !.phase = "SelectProfiles"],
              action |-> Action_None,
              stages |-> <<"open_file", "read_to_string", "import_profiles">>]

\* An open_file that leaves the cursor where the last selection left it.
ProfileImportDialog_open_file_keep_cursor(d, home, rd) ==
    LET p == expand_tilde(trim(d.file_path), home)
        content == read_to_string(p, rd)
        profiles == import_profiles(content.val)
    IN  IF trim(d.file_path) = << >>
        THEN [dialog |-> d, action |-> Action_ErrorMessage("File path is required"),
              stages |-> <<"open_file">>]
        ELSE IF content.tag = "Err"
        THEN [dialog |-> d, action |-> Action_ErrorMessage(content.msg),
              stages |-> <<"open_file", "read_to_string">>]
        ELSE IF profiles.tag = "Err"
        THEN [dialog |-> d, action |-> Action_ErrorMessage(profiles.msg),
              stages |-> <<"open_file", "read_to_string", "import_profiles">>]
        ELSE [dialog |->
                 [d EXCEPT !.parsed_profiles =
                               [i \in 1..Len(profiles.val) |-> <<profiles.val[i], TRUE>>],
                           !.phase = "SelectProfiles"],
              action |-> Action_None,
              stages |-> <<"open_file", "read_to_string", "import_profiles">>]

\* ProfileImportDialog::open_file.
ProfileImportDialog_open_file(d, home, rd) ==
    LET p == expand_tilde(trim(d.file_path), home)
        content == read_to_string(p, rd)
        profiles == import_profiles(content.val)
    IN  IF trim(d.file_path) = << >>
        THEN [dialog |-> d, action |-> Action_ErrorMessage("File path is required"),
              stages |-> <<"open_file">>]
        ELSE IF content.tag = "Err"
        THEN [dialog |-> d, action |-> Action_ErrorMessage(content.msg),
              stages |-> <<"open_file", "read_to_string">>]
        ELSE IF profiles.tag = "Err"
        THEN [dialog |-> d, action |-> Action_ErrorMessage(profiles.msg),
              stages |-> <<"open_file", "read_to_string", "import_profiles">>]
        ELSE [dialog |->
                 [d EXCEPT !.parsed_profiles =
                               [i \in 1..Len(profiles.val) |-> <<profiles.val[i], TRUE>>],
                           !.cursor = 0,
                           !.phase = "SelectProfiles"],
              action |-> Action_None,
              stages |-> <<"open_file", "read_to_string", "import_profiles">>]

\* The parsed profiles whose flag is set, in order.
import_selected(parsed_profiles) ==
    LET kept == SelectSeq(parsed_profiles, LAMBDA item : item[2])
    IN  [k \in 1..Len(kept) |-> kept[k][1]]

\* A submit that sends every parsed profile, selected or not.
ProfileImportDialog_submit_all(d) ==
    LET selected == [k \in 1..Len(d.parsed_profiles) |-> d.parsed_profiles[k][1]]
    IN  IF import_selected(d.parsed_profiles) = << >>
        THEN [dialog |-> d, action |-> Action_ErrorMessage("No profiles selected"),
              stages |-> <<"submit">>]
        ELSE [dialog |-> ProfileImportDialog_hide(d),
              action |-> Action_ConnMgrImportExecute(selected),
              stages |-> <<"submit">>]

\* ProfileImportDialog::submit.
ProfileImportDialog_submit(d) ==
    LET selected == import_selected(d.parsed_profiles)
    IN  IF selected = << >>
        THEN [dialog |-> d, action |-> Action_ErrorMessage("No profiles selected"),
              stages |-> <<"submit">>]
        ELSE [dialog |-> ProfileImportDialog_hide(d),
              action |-> Action_ConnMgrImportExecute(selected),
              stages |-> <<"submit">>]

\* A handle_key_event whose Esc closes the dialog in either phase.
ProfileImportDialog_handle_key_event_esc_closes(d, key, home, rd) ==
    IF key.code = "Esc"
    THEN [dialog |-> ProfileImportDialog_hide(d),
          action |-> Action_ClosePopup, stages |-> << >>]
    ELSE IF key.code = "Enter"
    THEN IF d.phase = "FilePath"
         THEN ProfileImportDialog_open_file(d, home, rd)
         ELSE ProfileImportDialog_submit(d)
    ELSE IF d.phase = "FilePath"
    THEN [dialog |-> ProfileImportDialog_handle_filepath_key(d, key),
          action |-> Action_None, stages |-> <<"handle_filepath_key">>]
    ELSE [dialog |-> ProfileImportDialog_handle_select_key(d, key),
          action |-> Action_None, stages |-> <<"handle_select_key">>]

\* ProfileImportDialog::handle_key_event.
ProfileImportDialog_handle_key_event(d, key, home, rd) ==
    IF key.code = "Esc"
    THEN IF d.phase = "SelectProfiles"
         THEN [dialog |-> [d EXCEPT !.phase = "FilePath", !.parsed_profiles = << >>],
               action |-> Action_None, stages |-> << >>]
         ELSE [dialog |-> ProfileImportDialog_hide(d),
               action |-> Action_ClosePopup, stages |-> << >>]
    ELSE IF key.code = "Enter"
    THEN IF d.phase = "FilePath"
         THEN ProfileImportDialog_open_file(d, home, rd)
         ELSE ProfileImportDialog_submit(d)
    ELSE IF d.phase = "FilePath"
    THEN [dialog |-> ProfileImportDialog_handle_filepath_key(d, key),
          action |-> Action_None, stages |-> <<"handle_filepath_key">>]
    ELSE [dialog |-> ProfileImportDialog_handle_select_key(d, key),
          action |-> Action_None, stages |-> <<"handle_select_key">>]

\* ------------------------------------------------- the dialogs, as driven
\* Characters are typed into a name shorter than MaxTyped only, which keeps
\* the names finite; every other key is taken in every state.  A behaviour
\* of the export dialog ends with the first file it leaves on the disk: the
\* dialog's next steps do not depend on the disk, and an export hides it as
\* hide does.

DialogInit ==
    /\ entries = << >>
    /\ path = NoPath
    /\ file = NoFile
    /\ call = NoCall
    /\ ret = None
    /\ stages = << >>
    /\ rerun = FALSE
    /\ dialog \in {ProfileExportDialog_new, ProfileImportDialog_new}

\* What the environment decides when Enter is pressed; nothing otherwise.
EnterOnly(key, outcomes) ==
    IF key.code = "Enter" THEN outcomes ELSE { CHOOSE o \in outcomes : TRUE }

ExportShow ==
    \E profiles \in ProfileLists :
        /\ dialog.type = "export"
        /\ file = NoFile
        /\ dialog' = ProfileExportDialog_show(dialog, profiles)
        /\ call' = [op |-> "show", profiles |-> profiles]
        /\ ret' = None
        /\ stages' = << >>
        /\ UNCHANGED <<entries, path, file, rerun>>

ExportHide ==
    /\ dialog.type = "export"
    /\ file = NoFile
    /\ dialog' = ProfileExportDialog_hide(dialog)
    /\ call' = [op |-> "hide"]
    /\ ret' = None
    /\ stages' = << >>
    /\ UNCHANGED <<entries, path, file, rerun>>

ExportKeyEvent ==
    /\ dialog.type = "export"
    /\ file = NoFile
    /\ \E key \in Keys :
        \E all_profiles \in EnterOnly(key, ProfileLists),
           home \in HomeDirs(trim(dialog.filename)),
           o \in EnterOnly(key, Outcomes) :
            LET r == ProfileExportDialog_handle_key_event(
                         dialog, key, all_profiles, path, file, home, o[1], o[2])
            IN  /\ (key.code = "Char" /\ dialog.active_field = "Filename")
                       => Len(dialog.filename) < MaxTyped
                /\ dialog' = r.dialog
                /\ call' = [op |-> "handle_key_event", key |-> key]
                /\ ret' = r.action
                /\ path' = r.path
                /\ file' = r.file
                /\ stages' = r.stages
                /\ UNCHANGED <<entries, rerun>>

ImportShow ==
    /\ dialog.type = "import"
    /\ dialog' = ProfileImportDialog_show(dialog)
    /\ call' = [op |-> "show"]
    /\ ret' = None
    /\ stages' = << >>
    /\ UNCHANGED <<entries, path, file, rerun>>

ImportHide ==
    /\ dialog.type = "import"
    /\ dialog' = ProfileImportDialog_hide(dialog)
    /\ call' = [op |-> "hide"]
    /\ ret' = None
    /\ stages' = << >>
    /\ UNCHANGED <<entries, path, file, rerun>>

ImportKeyEvent ==
    /\ dialog.type = "import"
    /\ \E key \in Keys :
        \E home \in HomeDirs(trim(dialog.file_path)),
           rd \in EnterOnly(key, ReadOutcomes) :
            LET r == ProfileImportDialog_handle_key_event(dialog, key, home, rd)
            IN  /\ (key.code = "Char" /\ dialog.phase = "FilePath")
                       => Len(dialog.file_path) < MaxTyped
                /\ dialog' = r.dialog
                /\ call' = [op |-> "handle_key_event", key |-> key]
                /\ ret' = r.action
                /\ stages' = r.stages
                /\ UNCHANGED <<entries, path, file, rerun>>

DialogNext ==
    \/ ExportShow \/ ExportHide \/ ExportKeyEvent
    \/ ImportShow \/ ImportHide \/ ImportKeyEvent

SpecDialog == DialogInit /\ [][DialogNext]_vars

\* ------------------------------------------------ properties of the dialogs

Pressed(c, key) == c.op = "handle_key_event" /\ c.key = key

\* A name that is empty or made of whitespace only.
Blank(s) == \A i \in 1..Len(s) : s[i] \in {" ", "\n"}

\* No profile of the list has its flag set.
NoneSelected(profiles) == \A i \in 1..Len(profiles) : ~profiles[i][2]

\* One Enter in the export dialog: with a blank filename it returns "Filename
\* is required", with a filename and nothing selected "No profiles selected";
\* either way no file is written and the dialog is as it was.
ExportSubmitRejectsStep ==
    (dialog.type = "export" /\ Pressed(call', Key("Enter"))) =>
        /\ Blank(dialog.filename) =>
             /\ ret' = Action_ErrorMessage("Filename is required")
             /\ dialog' = dialog
             /\ file' = file /\ path' = path
             /\ stages' = <<"submit">>
        /\ (~Blank(dialog.filename) /\ NoneSelected(dialog.profiles)) =>
             /\ ret' = Action_ErrorMessage("No profiles selected")
             /\ dialog' = dialog
             /\ file' = file /\ path' = path
             /\ stages' = <<"submit">>

\* C16: Enter in the export dialog while the filename is empty or whitespace
\* only, or while no profile is selected, returns an error message (the
\* filename is looked at first), writes no file and leaves the dialog visible
\* with its flags, cursor, filename and active field as they were, whichever
\* field is active.
ExportSubmitRejects == [][ExportSubmitRejectsStep]_vars

\* Enter on a shown dialog with the filename field active, a filename of one
\* space and nothing selected: the filename is what is complained about.
ExportSubmitRejectsWitness ==
    /\ dialog.type = "export"
    /\ Pressed(call, Key("Enter"))
    /\ dialog.visible
    /\ dialog.active_field = "Filename"
    /\ dialog.filename = <<" ">>
    /\ Len(dialog.profiles) = 2
    /\ NoneSelected(dialog.profiles)
    /\ dialog.cursor = 1
    /\ ret = Action_ErrorMessage("Filename is required")
    /\ file = NoFile

\* Enter with the list active, the default filename and nothing selected.
NothingSelectedRejected ==
    /\ dialog.type = "export"
    /\ Pressed(call, Key("Enter"))
    /\ dialog.visible
    /\ dialog.active_field = "ProfileList"
    /\ dialog.filename = profiles_toml
    /\ Len(dialog.profiles) = 2
    /\ NoneSelected(dialog.profiles)
    /\ ret = Action_ErrorMessage("No profiles selected")
    /\ file = NoFile

\* One step of the import dialog.  The phase becomes SelectProfiles only by
\* an Enter in FilePath on a path that is not blank, with the file read and
\* parsed, and then the cursor is 0 and every parsed profile is selected.  An
\* Enter in FilePath that returns an error message (on a blank path, a failed
\* read or a failed parse) leaves the dialog as it was.
ImportOpenStep ==
    dialog.type = "import" =>
        /\ (dialog.phase # "SelectProfiles" /\ dialog'.phase = "SelectProfiles") =>
             /\ Pressed(call', Key("Enter"))
             /\ dialog.phase = "FilePath"
             /\ ~Blank(dialog.file_path)
             /\ stages' = <<"open_file", "read_to_string", "import_profiles">>
             /\ ret' = Action_None
             /\ dialog'.cursor = 0
             /\ \A i \in 1..Len(dialog'.parsed_profiles) : dialog'.parsed_profiles[i][2]
             /\ dialog'.file_path = dialog.file_path
             /\ dialog'.visible = dialog.visible
        /\ (Pressed(call', Key("Enter")) /\ dialog.phase = "FilePath") =>
             /\ Blank(dialog.file_path) =>
                  ret' = Action_ErrorMessage("File path is required")
             /\ stages' # <<"open_file", "read_to_string", "import_profiles">> =>
                  ret'.action = "ErrorMessage"
             /\ ret'.action \in {"ErrorMessage", "None"}
             /\ ret'.action = "ErrorMessage" => dialog' = dialog
             /\ ret'.action = "None" => dialog'.phase = "SelectProfiles"

\* C17: the import dialog enters SelectProfiles only through Enter in
\* FilePath with a non-blank path whose file was read and parsed; the cursor
\* is then 0 and every parsed profile selected.  With a blank path, a failed
\* read or a failed parse an error message is returned and the dialog stays
\* visible in FilePath, file path and parsed profiles unchanged.
ImportOpensOnlyParsedFile == [][ImportOpenStep]_vars

\* Two profiles, parsed in the file's order, all selected, cursor on the first.
ImportOpensWitness ==
    /\ dialog.type = "import"
    /\ Pressed(call, Key("Enter"))
    /\ ret = Action_None
    /\ dialog.visible
    /\ dialog.phase = "SelectProfiles"
    /\ dialog.file_path = profiles_toml
    /\ dialog.parsed_profiles = << <<Profile(2), TRUE>>, <<Profile(1), TRUE>> >>
    /\ dialog.cursor = 0

\* A parse failure: the dialog is still asking for the path.
ImportParseFailureWitness ==
    /\ dialog.type = "import"
    /\ Pressed(call, Key("Enter"))
    /\ ret = Action_ErrorMessage("import failed")
    /\ stages = <<"open_file", "read_to_string", "import_profiles">>
    /\ dialog.visible
    /\ dialog.phase = "FilePath"
    /\ dialog.file_path = profiles_toml
    /\ dialog.parsed_profiles = << >>

\* One Esc in the import dialog.  In SelectProfiles it goes back to FilePath,
\* clears the parsed profiles, keeps visibility and the typed path and returns
\* no action; in FilePath it hides the dialog and returns ClosePopup.  An Esc
\* that follows an Esc which went back therefore closes the dialog.
ImportEscStep ==
    (dialog.type = "import" /\ Pressed(call', Key("Esc"))) =>
        /\ dialog.phase = "SelectProfiles" =>
             /\ dialog'.phase = "FilePath"
             /\ dialog'.parsed_profiles = << >>
             /\ dialog'.visible = dialog.visible
             /\ dialog'.popup = dialog.popup
             /\ dialog'.file_path = dialog.file_path
             /\ ret' = Action_None
        /\ dialog.phase = "FilePath" =>
             /\ ~dialog'.visible
             /\ dialog'.phase = "FilePath"
             /\ dialog'.file_path = dialog.file_path
             /\ ret' = Action_ClosePopup
        /\ (Pressed(call, Key("Esc")) /\ ret = Action_None) =>
             /\ ~dialog'.visible
             /\ ret' = Action_ClosePopup

\* C18: Esc in the import dialog steps back one phase at a time: from
\* SelectProfiles to FilePath (parsed profiles cleared, dialog still visible,
\* path kept, no action), from FilePath out (dialog hidden, ClosePopup); so
\* one Esc never closes the dialog from SelectProfiles and two in a row do.
ImportEscStepsBack == [][ImportEscStep]_vars

\* Just after Esc in SelectProfiles, the cursor having been moved down there:
\* the dialog is visible, asks for the path again and holds no profiles.
ImportEscBackWitness ==
    /\ dialog.type = "import"
    /\ Pressed(call, Key("Esc"))
    /\ ret = Action_None
    /\ dialog.visible
    /\ dialog.phase = "FilePath"
    /\ dialog.file_path = profiles_toml
    /\ dialog.parsed_profiles = << >>
    /\ dialog.cursor = 1

\* After the second Esc: hidden, ClosePopup returned.
ImportEscClosedWitness ==
    /\ dialog.type = "import"
    /\ Pressed(call, Key("Esc"))
    /\ ret = Action_ClosePopup
    /\ ~dialog.visible
    /\ dialog.popup = "hidden"
    /\ dialog.phase = "FilePath"
    /\ dialog.cursor = 1

\* `sel` lists exactly the profiles of `parsed` whose flag is set, in the
\* order of `parsed`: its k-th element is the one at the k-th set flag.
SelectedInOrder(sel, parsed) ==
    LET idx == { i \in 1..Len(parsed) : parsed[i][2] }
    IN  /\ Len(sel) = Cardinality(idx)
        /\ \A i \in idx : sel[Cardinality({ j \in idx : j <= i })] = parsed[i][1]

\* One key event of the import dialog.  ConnMgrImportExecute is returned only
\* by an Enter in SelectProfiles with a profile selected; it carries the
\* selected profiles in parsed order, and the dialog is hidden, nothing else
\* of it changed.  An Enter in SelectProfiles with nothing selected returns
\* "No profiles selected" and leaves the dialog as it was.
ImportSubmitStep ==
    (dialog.type = "import" /\ call'.op = "handle_key_event") =>
        /\ ret'.action = "ConnMgrImportExecute" =>
             /\ call'.key = Key("Enter")
             /\ dialog.phase = "SelectProfiles"
             /\ ~NoneSelected(dialog.parsed_profiles)
        /\ (call'.key = Key("Enter") /\ dialog.phase = "SelectProfiles") =>
             IF NoneSelected(dialog.parsed_profiles)
             THEN /\ ret' = Action_ErrorMessage("No profiles selected")
                  /\ dialog' = dialog
             ELSE /\ ret'.action = "ConnMgrImportExecute"
                  /\ ret'.selected # << >>
                  /\ SelectedInOrder(ret'.selected, dialog.parsed_profiles)
                  /\ dialog' = [dialog EXCEPT !.visible = FALSE, !.popup = "hidden"]

\* C19: the import dialog returns ConnMgrImportExecute only on Enter in
\* SelectProfiles with at least one profile selected; the action carries
\* exactly the selected profiles, in parsed order, and the dialog is hidden.
\* With none selected Enter returns "No profiles selected" and the dialog
\* stays visible in SelectProfiles, unchanged.
ImportExecutesSelection == [][ImportSubmitStep]_vars

\* A file of two profiles in reverse order, both selected: the action carries
\* them in the file's order.
ImportExecutesWitness ==
    /\ dialog.type = "import"
    /\ Pressed(call, Key("Enter"))
    /\ dialog.phase = "SelectProfiles"
    /\ ~dialog.visible
    /\ Len(dialog.parsed_profiles) = MaxProfiles
    /\ dialog.parsed_profiles[1] = <<Profile(MaxProfiles), TRUE>>
    /\ dialog.parsed_profiles[2][2]
    /\ ret.action = "ConnMgrImportExecute"
    /\ ret.selected[1] = Profile(MaxProfiles)
    /\ Len(ret.selected) >= 2

\* Only the second of two profiles selected: it alone is carried.
ImportExecutesOneWitness ==
    /\ dialog.type = "import"
    /\ Pressed(call, Key("Enter"))
    /\ ~dialog.visible
    /\ Len(dialog.parsed_profiles) = 2
    /\ ~dialog.parsed_profiles[1][2]
    /\ dialog.parsed_profiles[2][2]
    /\ ret = Action_ConnMgrImportExecute(<<dialog.parsed_profiles[2][1]>>)

\* Everything deselected with 'a', then Enter: the error, dialog as it was.
ImportNothingSelectedWitness ==
    /\ dialog.type = "import"
    /\ Pressed(call, Key("Enter"))
    /\ dialog.visible
    /\ dialog.phase = "SelectProfiles"
    /\ Len(dialog.parsed_profiles) = 2
    /\ NoneSelected(dialog.parsed_profiles)
    /\ ret = Action_ErrorMessage("No profiles selected")

\* The dialog is taking keys for its profile list, and the list it shows.
InList(d) ==
    \/ d.type = "export" /\ d.active_field = "ProfileList"
    \/ d.type = "import" /\ d.phase = "SelectProfiles"

ListOf(d) == IF d.type = "export" THEN d.profiles ELSE d.parsed_profiles

AllSelected(profiles) == \A i \in 1..Len(profiles) : profiles[i][2]

\* One 'a' in the profile list of either dialog: the flags all become unset if
\* all were set, all set if one was unset; the profiles, the cursor and the
\* rest of the dialog stay, an empty list stays empty, no action is returned.
\* An 'a' that follows an 'a' which selected everything selects nothing.
SelectAllStep ==
    (Pressed(call', Char("a")) /\ InList(dialog)) =>
        LET old == ListOf(dialog)
            new == ListOf(dialog')
        IN  /\ Len(new) = Len(old)
            /\ \A i \in 1..Len(old) : new[i][1] = old[i][1]
            /\ AllSelected(old) => NoneSelected(new)
            /\ ~AllSelected(old) => AllSelected(new)
            /\ old = << >> => new = << >>
            /\ dialog'.cursor = dialog.cursor
            /\ dialog' = IF dialog.type = "export"
                         THEN [dialog EXCEPT !.profiles = new]
                         ELSE [dialog EXCEPT !.parsed_profiles = new]
            /\ ret' = Action_None
            /\ file' = file
            /\ (Pressed(call, Char("a")) /\ AllSelected(old)) => NoneSelected(new)
            /\ Pressed(call, Char("a")) => (AllSelected(old) \/ NoneSelected(old))

\* C20: in both profile dialogs 'a' in the profile list makes all flags
\* equal: unset if all were set, set if at least one was unset; the cursor
\* stays, an empty list stays, and a second 'a' after a mixed selection leaves
\* nothing selected instead of the selection there was.
SelectAllMakesEqual == [][SelectAllStep]_vars

\* The export dialog after 'a' with the cursor on the second of two profiles,
\* nothing selected.
SelectAllWitness ==
    /\ dialog.type = "export"
    /\ Pressed(call, Char("a"))
    /\ dialog.active_field = "ProfileList"
    /\ dialog.visible
    /\ Len(dialog.profiles) = 2
    /\ NoneSelected(dialog.profiles)
    /\ dialog.cursor = 1

\* The import dialog after 'a' on a selection that was not complete.
SelectAllImportWitness ==
    /\ dialog.type = "import"
    /\ Pressed(call, Char("a"))
    /\ dialog.phase = "SelectProfiles"
    /\ dialog.visible
    /\ Len(dialog.parsed_profiles) = 2
    /\ AllSelected(dialog.parsed_profiles)
    /\ dialog.cursor = 1

\* The cursor points into the list, or is 0 on an empty list.
CursorInList(cursor, list) ==
    /\ cursor \in Nat
    /\ IF list = << >> THEN cursor = 0 ELSE cursor < Len(list)

ExportCursorValid ==
    dialog.type = "export" => CursorInList(dialog.cursor, dialog.profiles)

\* One Up or Down in the profile list of the export dialog: Up at index 0 and
\* Down at the last index leave the cursor, every other one moves it by one.
ExportCursorStep ==
    (dialog.type = "export" /\ dialog.active_field = "ProfileList"
       /\ call'.op = "handle_key_event") =>
        /\ call'.key = Key("Up") =>
             dialog'.cursor = IF dialog.cursor = 0 THEN 0 ELSE dialog.cursor - 1
        /\ call'.key = Key("Down") =>
             dialog'.cursor = IF dialog.cursor + 1 >= Len(dialog.profiles)
                              THEN dialog.cursor ELSE dialog.cursor + 1
        /\ call'.key \in {Key("Up"), Key("Down")} =>
             dialog' = [dialog EXCEPT !.cursor = dialog'.cursor]

\* C21: in the export dialog, after any show calls and key events, the cursor
\* is an index of the profile list when the list is not empty and 0 when it
\* is; Up at index 0 and Down at the last index leave it (no wrap-around, no
\* underflow).
ExportCursorStaysInList == []ExportCursorValid /\ [][ExportCursorStep]_vars

\* Down pressed on a list of one profile: the cursor is still on it.
ExportCursorWitness ==
    /\ dialog.type = "export"
    /\ Pressed(call, Key("Down"))
    /\ dialog.visible
    /\ dialog.active_field = "ProfileList"
    /\ Len(dialog.profiles) = 1
    /\ dialog.cursor = 0

\* The dialog shown again with no profiles after the cursor had been moved.
ExportCursorResetWitness ==
    /\ dialog.type = "export"
    /\ call.op = "show"
    /\ call.profiles = << >>
    /\ dialog.profiles = << >>
    /\ dialog.cursor = 0

ImportCursorValid ==
    (dialog.type = "import" /\ dialog.phase = "SelectProfiles") =>
        CursorInList(dialog.cursor, dialog.parsed_profiles)

\* One Space in SelectProfiles on a list that is not empty: the flag of the
\* profile under the cursor, and nothing else, is inverted.
ImportSpaceStep ==
    (dialog.type = "import" /\ dialog.phase = "SelectProfiles"
       /\ Pressed(call', Char(" ")) /\ dialog.parsed_profiles # << >>) =>
        /\ dialog.cursor + 1 \in 1..Len(dialog.parsed_profiles)
        /\ dialog'.parsed_profiles[dialog.cursor + 1]
             = << dialog.parsed_profiles[dialog.cursor + 1][1],
                  ~dialog.parsed_profiles[dialog.cursor + 1][2] >>
        /\ \A i \in 1..Len(dialog.parsed_profiles) :
             i # dialog.cursor + 1 => dialog'.parsed_profiles[i] = dialog.parsed_profiles[i]
        /\ Len(dialog'.parsed_profiles) = Len(dialog.parsed_profiles)
        /\ dialog' = [dialog EXCEPT !.parsed_profiles = dialog'.parsed_profiles]
        /\ ret' = Action_None

\* C22: in the import dialog, after any show calls and key events (going back
\* with Esc after moving the cursor and opening a file again included), the
\* cursor in SelectProfiles is an index of the parsed list, or 0 when the list
\* is empty, so Space always toggles the profile under the cursor.
ImportCursorStaysInList == []ImportCursorValid /\ [][ImportSpaceStep]_vars

\* One profile parsed, and deselected by Space with the cursor on it.
ImportCursorWitness ==
    /\ dialog.type = "import"
    /\ Pressed(call, Char(" "))
    /\ dialog.visible
    /\ dialog.phase = "SelectProfiles"
    /\ dialog.parsed_profiles = << <<Profile(1), FALSE>> >>
    /\ dialog.cursor = 0

\* Back in FilePath after Esc, the cursor still where the selection left it.
ImportCursorKeptByEsc ==
    /\ dialog.type = "import"
    /\ Pressed(call, Key("Esc"))
    /\ dialog.phase = "FilePath"
    /\ dialog.parsed_profiles = << >>
    /\ dialog.cursor = MaxProfiles - 1
    /\ dialog.cursor > 0

\* A name without its last character (the empty name stays empty).
WithoutLast(s) == [i \in 1..(Len(s) - 1) |-> s[i]]

OtherField(f) == IF f = "ProfileList" THEN "Filename" ELSE "ProfileList"

\* One key event of the export dialog.  A key other than Esc, Tab, BackTab
\* and Enter reaches the active field only: with Filename active a character
\* is appended to the filename, Backspace removes its last character, and
\* flags and cursor stay; with ProfileList active the filename stays.  Tab and
\* BackTab switch the active field and nothing else, so one that follows
\* another puts back the field the first one left.
ExportKeyRoutingStep ==
    (dialog.type = "export" /\ call'.op = "handle_key_event") =>
        LET key == call'.key
        IN  /\ dialog.active_field \in {"ProfileList", "Filename"}
            /\ (key.code \notin {"Esc", "Tab", "BackTab", "Enter"}
                  /\ dialog.active_field = "Filename") =>
                 /\ key.code = "Char" => dialog'.filename = dialog.filename \o <<key.c>>
                 /\ key.code = "Backspace" => dialog'.filename = WithoutLast(dialog.filename)
                 /\ key.code \notin {"Char", "Backspace"} => dialog'.filename = dialog.filename
                 /\ dialog' = [dialog EXCEPT !.filename = dialog'.filename]
                 /\ ret' = Action_None
            /\ (key.code \notin {"Esc", "Tab", "BackTab", "Enter"}
                  /\ dialog.active_field = "ProfileList") =>
                 /\ dialog' = [dialog EXCEPT !.profiles = dialog'.profiles,
                                             !.cursor = dialog'.cursor]
                 /\ ret' = Action_None
            /\ key.code \in {"Tab", "BackTab"} =>
                 /\ dialog' = [dialog EXCEPT !.active_field = OtherField(dialog.active_field)]
                 /\ dialog'.active_field # dialog.active_field
                 /\ ret' = Action_None
                 /\ (call.op = "handle_key_event" /\ call.key.code \in {"Tab", "BackTab"}) =>
                      OtherField(dialog'.active_field) = dialog.active_field
            /\ file' = file \/ key.code = "Enter"

ExportBackTabWitness ==
    /\ dialog.type = "export"
    /\ Pressed(call, Key("BackTab"))
    /\ dialog.visible
    /\ dialog.active_field = "ProfileList"
    /\ dialog.filename = profiles_toml
    /\ Len(dialog.profiles) = 2

====
